---- MODULE Spec2Model ----
(***************************************************************************)
(* DocuDB: one database with one collection.  The model covers the file    *)
(* storage (chunked documents on disk), the index manager (in-memory       *)
(* indexes and their .idx files), the collection controller (cache,        *)
(* metadata, documentOrder, per-document lock) and the database facade     *)
(* (collection(), reopen).                                                 *)
(*                                                                         *)
(* Abstractions: a document has the fields _id, a and b; a field value is  *)
(* a tagged string; the JSON serialization of a document is a sequence of  *)
(* units, one per present field, in the order _id, a, b, and one for the   *)
(* closing brace; chunkSize counts units.  There is one collection, so     *)
(* every index key belongs to it.                                          *)
(***************************************************************************)
EXTENDS Integers, Sequences, FiniteSets, TLC

\* ---------------------------------------------------------------- bounds
NumIds == 2
ChunkSize == 2
MaxOrder == 3
MaxCalls == 4
MaxNum == 3
MaxArr == 2
MaxChars == 3
MaxChunkSize == 3
\* database.ts:667  const maxRetries = 10
maxRetries == 10

Ids == 1..NumIds

\* the two id formats: odd ids stand for 24-character lowercase hexadecimal
\* ids, even ids for UUID v4 ids
isValidMongoID(id) == id % 2 = 1
isValidUUID(id) == id % 2 = 0
isValidID(id) == isValidUUID(id) \/ isValidMongoID(id)
\* database.ts:1008  /^[0-9a-f]{24}$/
hexPattern(id) == isValidMongoID(id)

\* ---------------------------------------------------------------- values
Undefined == [t |-> "undefined", s |-> ""]
StrVal(x) == [t |-> "string", s |-> x]
Keep == [t |-> "keep", s |-> ""]
Null == [t |-> "null", s |-> ""]
\* a number, with its decimal text
NumVal(n) == [t |-> "number", s |-> ToString(n)]
NumOf(v) == CHOOSE n \in 0..MaxNum : ToString(n) = v.s
\* an array of strings, with the text of its elements
ArrVal(x) == [t |-> "array", s |-> x]
Vals == {StrVal("x"), StrVal("y")}
FieldVals == Vals \cup {Undefined}
NullDoc == [_id |-> 0, a |-> Undefined, b |-> Undefined]

Range(f) == {f[x] : x \in DOMAIN f}
Put(f, k, v) == [x \in (DOMAIN f) \cup {k} |-> IF x = k THEN v ELSE f[x]]
Drop1(f, k) == [x \in (DOMAIN f) \ {k} |-> f[x]]
Min2(x, y) == IF x < y THEN x ELSE y
Max2(x, y) == IF x < y THEN y ELSE x

RECURSIVE SortedSeq(_)
SortedSeq(S) ==
    IF S = {} THEN <<>>
    ELSE LET m == CHOOSE x \in S : \A y \in S : x <= y
         IN <<m>> \o SortedSeq(S \ {m})

\* ------------------------------------------------- JSON.stringify / parse
\* the opening brace with the _id member (id 0: the object has no _id)
IdUnit(id) == [k |-> "_id", id |-> id, v |-> Undefined]
FieldUnit(f, v) == [k |-> f, id |-> 0, v |-> v]

\* the closing brace of the object
EndUnit == [k |-> "}", id |-> 0, v |-> Undefined]

Stringify(doc) ==
    <<IdUnit(doc._id)>>
      \o (IF doc.a = Undefined THEN <<>> ELSE <<FieldUnit("a", doc.a)>>)
      \o (IF doc.b = Undefined THEN <<>> ELSE <<FieldUnit("b", doc.b)>>)
      \o <<EndUnit>>

KeyRank(k) == CASE k = "_id" -> 0 [] k = "a" -> 1 [] k = "b" -> 2 [] k = "}" -> 3

\* the text is one complete object: it starts with the _id member, ends
\* with the closing brace and has nothing after it
WellFormed(u) ==
    /\ Len(u) >= 2
    /\ u[1].k = "_id"
    /\ u[Len(u)].k = "}"
    /\ \A i \in 1..(Len(u) - 1) : KeyRank(u[i].k) < KeyRank(u[i + 1].k)

UnitValue(u, f) ==
    IF \E i \in 1..Len(u) : u[i].k = f
    THEN u[CHOOSE i \in 1..Len(u) : u[i].k = f].v
    ELSE Undefined

JSONParse(u) ==
    IF WellFormed(u)
    THEN [ok |-> TRUE,
          doc |-> [_id |-> u[1].id, a |-> UnitValue(u, "a"), b |-> UnitValue(u, "b")]]
    ELSE [ok |-> FALSE, doc |-> NullDoc]

\* ------------------------------------------------------------ FileStorage
NumChunks(n) == (n + ChunkSize - 1) \div ChunkSize

SplitIntoChunks(data) ==
    [i \in 1..NumChunks(Len(data)) |->
        SubSeq(data, (i - 1) * ChunkSize + 1, Min2(i * ChunkSize, Len(data)))]

\* chunk_<i> paths of a document directory, as the indices i
GetChunkPaths(n) == [i \in 1..n |-> i - 1]

\* saveData on a document directory: chunk_0..chunk_(k-1) are (over)written
\* in place; chunk files with a higher index stay as they are.
SaveData(dir, doc) ==
    LET ch == SplitIntoChunks(Stringify(doc))
        k == Len(ch)
    IN [i \in (DOMAIN dir) \cup (0..(k - 1)) |-> IF i < k THEN ch[i + 1] ELSE dir[i]]

SavedChunkPaths(doc) == GetChunkPaths(Len(SplitIntoChunks(Stringify(doc))))

DeleteChunks(dir, chunkPaths) ==
    [i \in (DOMAIN dir) \ Range(chunkPaths) |-> dir[i]]

RECURSIVE Concat(_, _, _)
Concat(dir, chunkPaths, i) ==
    IF i > Len(chunkPaths) THEN <<>>
    ELSE dir[chunkPaths[i]] \o Concat(dir, chunkPaths, i + 1)

ReadData(dir, chunkPaths) == JSONParse(Concat(dir, chunkPaths, 1))

\* ----------------------------------------------------------- IndexManager
GetNestedValue(doc, f) == IF f \in DOMAIN doc THEN doc[f] ELSE Undefined

\* String(value) as Array.prototype.join renders it
JoinText(v) == IF v.t \in {"undefined", "null"} THEN "" ELSE v.s

RECURSIVE JoinValues(_, _, _)
JoinValues(doc, fields, i) ==
    IF i > Len(fields) THEN ""
    ELSE JoinText(GetNestedValue(doc, fields[i]))
           \o (IF i < Len(fields) THEN "|" ELSE "")
           \o JoinValues(doc, fields, i + 1)

IndexedValue(ix, doc) ==
    IF ix.isCompound THEN StrVal(JoinValues(doc, ix.field, 1))
    ELSE GetNestedValue(doc, ix.field[1])

GetValueKey(v) ==
    IF v.t = "null" THEN "null"
    ELSE IF v.t = "undefined" THEN "undefined"
    ELSE v.t \o ":" \o v.s

FindDocIdByValue(ix, value) ==
    LET valueKey == GetValueKey(value)
    IN IF valueKey \in DOMAIN ix.entries /\ Len(ix.entries[valueKey]) > 0
       THEN ix.entries[valueKey][1]
       ELSE 0

RemoveDocFromIndex(entries, docId) ==
    LET Other(x) == x # docId
        kept == {k \in DOMAIN entries : SelectSeq(entries[k], Other) # <<>>}
    IN [k \in kept |-> SelectSeq(entries[k], Other)]

AddEntry(entries, value, docId) ==
    IF value = Undefined THEN entries
    ELSE LET valueKey == GetValueKey(value)
         IN Put(entries, valueKey,
                (IF valueKey \in DOMAIN entries THEN entries[valueKey] ELSE <<>>)
                  \o <<docId>>)

\* index.sparse === undefined: createIndex stores a boolean, so never true
SparseIsUndefined(ix) == ix.sparse \notin BOOLEAN

\* the uniqueness check left out
UncheckedUnique(ix, value, docId) == FALSE

UniqueViolated(ix, value, docId) ==
    /\ ix.unique
    /\ value # Undefined
    /\ FindDocIdByValue(ix, value) # 0
    /\ FindDocIdByValue(ix, value) # docId

\* the for loop of updateIndex from index i on: stops at the first violation
RECURSIVE UpdateIndexLoop(_, _, _, _)
UpdateIndexLoop(idxs, i, docId, doc) ==
    IF i > Len(idxs) THEN [ok |-> TRUE, indices |-> idxs]
    ELSE LET ix == idxs[i]
             value == IndexedValue(ix, doc)
         IN IF value = Undefined /\ SparseIsUndefined(ix)
            THEN UpdateIndexLoop(idxs, i + 1, docId, doc)
            ELSE IF UniqueViolated(ix, value, docId)
            THEN [ok |-> FALSE, indices |-> idxs]
            ELSE UpdateIndexLoop(
                    [idxs EXCEPT ![i].entries =
                        AddEntry(RemoveDocFromIndex(@, docId), value, docId)],
                    i + 1, docId, doc)

\* _saveIndex registers the index in the _metadata.json FILE when no entry
\* has idx.field === field (an array-valued field never equals the string)
RegisterIndex(md, ix) ==
    IF md.exists
         /\ ~\E j \in 1..Len(md.indices) :
               ~md.indices[j].isArray /\ md.indices[j].field = <<ix.key>>
    THEN [md EXCEPT !.indices = Append(@, [field |-> <<ix.key>>, isArray |-> FALSE,
                                           unique |-> ix.unique, sparse |-> ix.sparse])]
    ELSE md

RECURSIVE RegisterAll(_, _, _)
RegisterAll(md, idxs, i) ==
    IF i > Len(idxs) THEN md
    ELSE RegisterAll(RegisterIndex(md, idxs[i]), idxs, i + 1)

RECURSIVE WriteIdxFiles(_, _, _)
WriteIdxFiles(files, idxs, i) ==
    IF i > Len(idxs) THEN files
    ELSE WriteIdxFiles(Put(files, idxs[i].key, idxs[i]), idxs, i + 1)

\* A state of the database: S.documents (cache), S.metadata (in memory),
\* S.metaDisk (_metadata.json), S.disk (document directories),
\* S.indices (index manager memory), S.idxDisk (.idx files)
SaveAllIndices(S) ==
    [S EXCEPT !.idxDisk = WriteIdxFiles(@, S.indices, 1),
              !.metaDisk = RegisterAll(@, S.indices, 1)]

UpdateIndex(S, docId, doc) ==
    LET r == UpdateIndexLoop(S.indices, 1, docId, doc)
    IN IF r.ok
       THEN [ok |-> TRUE, S |-> SaveAllIndices([S EXCEPT !.indices = r.indices])]
       ELSE [ok |-> FALSE, S |-> [S EXCEPT !.indices = r.indices]]

RemoveFromIndices(S, docId) ==
    LET purged == [i \in 1..Len(S.indices) |->
                      [S.indices[i] EXCEPT !.entries = RemoveDocFromIndex(@, docId)]]
    IN IF purged # S.indices
       THEN SaveAllIndices([S EXCEPT !.indices = purged])
       ELSE S

\* ------------------------------------------------------------- Collection
EmptyDir == [i \in {} |-> <<>>]
EmptyMap == [i \in {} |-> 0]
NewMetadata == [count |-> 0, documentOrder |-> <<>>, indices |-> <<>>]
NoMetaFile == [exists |-> FALSE, count |-> 0, documentOrder |-> <<>>, indices |-> <<>>]

DirOf(S, id) == IF id \in DOMAIN S.disk THEN S.disk[id] ELSE EmptyDir

ColDirExists(S) ==
    S.metaDisk.exists \/ DOMAIN S.idxDisk # {} \/ DOMAIN S.disk # {}

\* JSON.stringify(this.metadata), as the content of _metadata.json
Snapshot(md) ==
    [exists |-> TRUE, count |-> md.count, documentOrder |-> md.documentOrder,
     indices |-> md.indices]

SaveMetadata(S) == [S EXCEPT !.metaDisk = Snapshot(S.metadata)]

FindById(S, id) ==
    IF id \in DOMAIN S.documents
    THEN [S |-> S, kind |-> "doc", doc |-> S.documents[id].data]
    ELSE IF id \notin DOMAIN S.disk
    THEN [S |-> S, kind |-> "null", doc |-> NullDoc]
    ELSE LET chunkPaths == SortedSeq(DOMAIN S.disk[id])
             r == ReadData(S.disk[id], chunkPaths)
         IN IF Len(chunkPaths) = 0
            THEN [S |-> S, kind |-> "null", doc |-> NullDoc]
            ELSE IF ~r.ok
            THEN [S |-> S, kind |-> "error", doc |-> NullDoc]
            ELSE [S |-> [S EXCEPT !.documents =
                            Put(@, id, [data |-> r.doc, chunkPaths |-> chunkPaths])],
                  kind |-> "doc", doc |-> r.doc]

\* An update object: ops = its operator keys; set = the members of $set
\* (Keep, or 0 for _id: not named); unset = the paths $unset names; inc =
\* the amounts of $inc (0: not named); plain = its members without a $
\* prefix; arr = the field and the element that $push, $pull or $addToSet
\* names (never read).
NoMembers == [_id |-> 0, a |-> Keep, b |-> Keep]
NoAmounts == [a |-> 0, b |-> 0]
NoElement == [field |-> "", s |-> ""]
EmptyUpdate ==
    [ops |-> {}, set |-> NoMembers, unset |-> {}, inc |-> NoAmounts,
     plain |-> NoMembers, arr |-> NoElement]

\* {$set: {...}, $unset: {...}} on the fields a and b: Keep = the update
\* does not name the field, Undefined = $unset, a value = $set
SetUnset(a, b) ==
    [EmptyUpdate EXCEPT
       !.ops = (IF a \notin {Keep, Undefined} \/ b \notin {Keep, Undefined}
                THEN {"$set"} ELSE {})
                 \cup (IF a = Undefined \/ b = Undefined THEN {"$unset"} ELSE {}),
       !.set = [_id |-> 0,
                a |-> IF a = Undefined THEN Keep ELSE a,
                b |-> IF b = Undefined THEN Keep ELSE b],
       !.unset = (IF a = Undefined THEN {"a"} ELSE {})
                   \cup (IF b = Undefined THEN {"b"} ELSE {})]

validOperators == {"$set", "$unset", "$inc", "$push", "$pull", "$addToSet"}

\* update.$set == null && update.$unset == null && update.$inc == null
NoOperator(update) == update.ops \cap {"$set", "$unset", "$inc"} = {}

\* Object.assign(result, update); result._id = id
Assign(doc, update) ==
    [_id |-> doc._id,
     a |-> IF update.plain.a = Keep THEN doc.a ELSE update.plain.a,
     b |-> IF update.plain.b = Keep THEN doc.b ELSE update.plain.b]

\* the $set loop, then the $unset loop
ApplySet(doc, update) ==
    IF "$set" \notin update.ops THEN doc
    ELSE [_id |-> IF update.set._id = 0 THEN doc._id ELSE update.set._id,
          a |-> IF update.set.a = Keep THEN doc.a ELSE update.set.a,
          b |-> IF update.set.b = Keep THEN doc.b ELSE update.set.b]

ApplyUnset(doc, update) ==
    IF "$unset" \notin update.ops THEN doc
    ELSE [_id |-> IF "_id" \in update.unset THEN 0 ELSE doc._id,
          a |-> IF "a" \in update.unset THEN Undefined ELSE doc.a,
          b |-> IF "b" \in update.unset THEN Undefined ELSE doc.b]

\* this._getNestedValue(result, key) ?? 0
CurrentValue(v) == IF v \in {Undefined, Null} THEN NumVal(0) ELSE v

IncField(v, n) ==
    IF n = 0 THEN v ELSE NumVal(NumOf(CurrentValue(v)) + n)

\* the $inc loop throws: typeof currentValue !== 'number'
IncThrows(doc, update) ==
    /\ "$inc" \in update.ops
    /\ \/ update.inc.a # 0 /\ CurrentValue(doc.a).t # "number"
       \/ update.inc.b # 0 /\ CurrentValue(doc.b).t # "number"

ApplyInc(doc, update) ==
    IF "$inc" \notin update.ops THEN doc
    ELSE [_id |-> doc._id,
          a |-> IF CurrentValue(doc.a).t = "number" THEN IncField(doc.a, update.inc.a)
                ELSE doc.a,
          b |-> IF CurrentValue(doc.b).t = "number" THEN IncField(doc.b, update.inc.b)
                ELSE doc.b]

\* _applyUpdate throws InvalidType
InvalidType(doc, update) ==
    /\ ~NoOperator(update)
    /\ IncThrows(ApplyUnset(ApplySet(doc, update), update), update)

ApplyUpdate(doc, update) ==
    IF NoOperator(update) THEN Assign(doc, update)
    ELSE ApplyInc(ApplyUnset(ApplySet(doc, update), update), update)

\* insertOne once _id is resolved
InsertOne(S, doc) ==
    LET id == doc._id
        r == UpdateIndex(S, id, doc)
    IN IF ~r.ok THEN [S |-> r.S, outcome |-> "UniqueViolation"]
       ELSE LET S1 == r.S
                S2 == [S1 EXCEPT
                         !.disk = Put(@, id, SaveData(DirOf(S1, id), doc)),
                         !.documents = Put(@, id, [data |-> doc,
                                                   chunkPaths |-> SavedChunkPaths(doc)]),
                         !.metadata.count = @ + 1,
                         !.metadata.documentOrder = Append(@, id)]
            IN [S |-> SaveMetadata(S2), outcome |-> "ok"]

UpdateById(S, id, update) ==
    LET f == FindById(S, id)
    IN IF f.kind = "error" THEN [S |-> f.S, outcome |-> "Error"]
       ELSE IF f.kind = "null" THEN [S |-> f.S, outcome |-> "null"]
       ELSE IF ~(update.ops \subseteq validOperators)
       THEN [S |-> f.S, outcome |-> "InvalidUpdate"]
       ELSE IF InvalidType(f.doc, update)
       THEN [S |-> f.S, outcome |-> "InvalidType"]
       ELSE LET S0 == f.S
                updatedDoc == ApplyUpdate(f.doc, update)
                chunkPaths == SavedChunkPaths(updatedDoc)
                saved == SaveData(DirOf(S0, id), updatedDoc)
                dir == IF S0.documents[id].chunkPaths # chunkPaths
                       THEN DeleteChunks(saved, S0.documents[id].chunkPaths)
                       ELSE saved
                S1 == [S0 EXCEPT !.disk = Put(@, id, dir),
                                 !.documents = Put(@, id, [data |-> updatedDoc,
                                                           chunkPaths |-> chunkPaths])]
                r == UpdateIndex(SaveMetadata(S1), id, updatedDoc)
            IN [S |-> r.S, outcome |-> IF r.ok THEN "ok" ELSE "UniqueViolation"]

DeleteById(S, id) ==
    LET f == FindById(S, id)
    IN IF f.kind = "error" THEN [S |-> f.S, outcome |-> "Error"]
       ELSE IF f.kind = "null" THEN [S |-> f.S, outcome |-> "false"]
       ELSE LET S1 == RemoveFromIndices([f.S EXCEPT !.disk = Drop1(@, id)], id)
                NotId(x) == x # id
                S2 == [S1 EXCEPT
                         !.documents = Drop1(@, id),
                         !.metadata.count = Max2(0, @ - 1),
                         !.metadata.documentOrder = SelectSeq(@, NotId)]
            IN [S |-> SaveMetadata(S2), outcome |-> "true"]

\* _loadAllDocuments, first loop: findById on every document directory
\* (dirIds in readdir order); a read error aborts the load
RECURSIVE LoadDocumentMap(_, _, _, _)
LoadDocumentMap(S, dirIds, i, documentMap) ==
    IF i > Len(dirIds) THEN [S |-> S, ok |-> TRUE, documentMap |-> documentMap]
    ELSE LET f == FindById(S, dirIds[i])
         IN IF f.kind = "error"
            THEN [S |-> f.S, ok |-> FALSE, documentMap |-> documentMap]
            ELSE LoadDocumentMap(f.S, dirIds, i + 1,
                    IF f.kind = "doc" THEN Put(documentMap, dirIds[i], f.doc)
                    ELSE documentMap)

\* _loadAllDocuments, second part: documentOrder first, then the rest
RECURSIVE InOrder(_, _, _, _)
InOrder(documentOrder, i, documentMap, taken) ==
    IF i > Len(documentOrder) THEN <<>>
    ELSE LET id == documentOrder[i]
         IN IF id \in DOMAIN documentMap /\ id \notin taken
            THEN <<documentMap[id]>>
                   \o InOrder(documentOrder, i + 1, documentMap, taken \cup {id})
            ELSE InOrder(documentOrder, i + 1, documentMap, taken)

LoadAllDocuments(S) ==
    LET m == LoadDocumentMap(S, SortedSeq(DOMAIN S.disk), 1, EmptyMap)
        order == S.metadata.documentOrder
        rest == SortedSeq(DOMAIN m.documentMap \ Range(order))
    IN [S |-> m.S, ok |-> m.ok,
        docs |-> InOrder(order, 1, m.documentMap, {})
                   \o [i \in 1..Len(rest) |-> m.documentMap[rest[i]]]]

IdsOf(docs) == [i \in 1..Len(docs) |-> docs[i]._id]

\* position (from 0) of the first document with _id = id, or -1
FindIndex(docs, id) ==
    IF \E i \in 1..Len(docs) : docs[i]._id = id
    THEN (CHOOSE i \in 1..Len(docs) :
             docs[i]._id = id /\ \A j \in 1..(i - 1) : docs[j]._id # id) - 1
    ELSE -1

\* splice(currentIndex, 1) then splice(adjustedNewIndex, 0, doc), on the ids
Splice(ids, currentIndex, adjustedNewIndex) ==
    LET without == SubSeq(ids, 1, currentIndex) \o SubSeq(ids, currentIndex + 2, Len(ids))
    IN SubSeq(without, 1, adjustedNewIndex) \o <<ids[currentIndex + 1]>>
         \o SubSeq(without, adjustedNewIndex + 1, Len(without))

\* the rehydration loop of updatePosition: findById per id, a read error throws
RECURSIVE Rehydrate(_, _, _)
Rehydrate(S, ids, i) ==
    IF i > Len(ids) THEN [S |-> S, ok |-> TRUE]
    ELSE LET f == FindById(S, ids[i])
         IN IF f.kind = "error" THEN [S |-> f.S, ok |-> FALSE]
            ELSE Rehydrate(f.S, ids, i + 1)

\* updatePosition from the new order on: save it, empty the cache, reload
SaveOrder(S, order) ==
    LET R == Rehydrate([SaveMetadata([S EXCEPT !.metadata.documentOrder = order])
                          EXCEPT !.documents = EmptyMap], order, 1)
    IN [S |-> R.S, outcome |-> IF R.ok THEN "true" ELSE "Error"]

\* updatePosition once the documents are loaded (ids: their _ids in order)
MoveDocument(S, ids, currentIndex, adjustedNewIndex) ==
    IF currentIndex = -1 THEN [S |-> S, outcome |-> "false"]
    ELSE IF currentIndex = adjustedNewIndex THEN [S |-> S, outcome |-> "true"]
    ELSE SaveOrder(S, Splice(ids, currentIndex, adjustedNewIndex))

\* updatePosition from _loadAllDocuments on (L: its result)
MoveLoaded(L, id, newIndex) ==
    IF ~L.ok THEN [S |-> L.S, outcome |-> "Error"]
    ELSE MoveDocument(L.S, IdsOf(L.docs), FindIndex(L.docs, id),
                      Min2(newIndex, Len(L.docs) - 1))

UpdatePosition(S, id, newIndex) ==
    LET f == FindById(S, id)
    IN IF f.kind = "error" THEN [S |-> f.S, outcome |-> "Error"]
       ELSE IF f.kind = "null" THEN [S |-> f.S, outcome |-> "false"]
       ELSE MoveLoaded(LoadAllDocuments(f.S), id, newIndex)

\* getPosition: the index of the document in the loaded order, -1 when
\* findById returns null; an id that fails the pattern test raises
GetPosition(S, id) ==
    LET f == FindById(S, id)
        L == LoadAllDocuments(f.S)
    IN IF ~hexPattern(id) THEN [S |-> S, kind |-> "error", index |-> -1]
       ELSE IF f.kind = "error" THEN [S |-> f.S, kind |-> "error", index |-> -1]
       ELSE IF f.kind = "null" THEN [S |-> f.S, kind |-> "index", index |-> -1]
       ELSE IF ~L.ok THEN [S |-> L.S, kind |-> "error", index |-> -1]
       ELSE [S |-> L.S, kind |-> "index", index |-> FindIndex(L.docs, id)]

RECURSIVE DeleteEach(_, _, _)
DeleteEach(S, ids, i) ==
    IF i > Len(ids) THEN [S |-> S, ok |-> TRUE]
    ELSE LET d == DeleteById(S, ids[i])
         IN IF d.outcome = "Error" THEN [S |-> d.S, ok |-> FALSE]
            ELSE DeleteEach(d.S, ids, i + 1)

\* Collection.drop: deleteById per loaded document, then the collection
\* directory (with _metadata.json and _indices/) is removed
DropCollectionFiles(S) ==
    LET L == LoadAllDocuments(S)
        D == DeleteEach(L.S, IdsOf(L.docs), 1)
    IN IF ~L.ok THEN [S |-> L.S, outcome |-> "Error"]
       ELSE IF ~D.ok THEN [S |-> D.S, outcome |-> "Error"]
       ELSE [S |-> [D.S EXCEPT !.disk = EmptyMap, !.metaDisk = NoMetaFile,
                               !.idxDisk = EmptyMap, !.documents = EmptyMap,
                               !.metadata.count = 0],
             outcome |-> "ok"]

\* Collection.listIndexes: the indexes the index manager holds under name:
ListIndexes(S) == S.indices

\* Database.dropCollection on the registered collection: Collection.drop,
\* the collection directory removed, the registry entry deleted
DropCollection(S) ==
    LET r == DropCollectionFiles(S)
    IN IF r.outcome = "Error" THEN [S |-> r.S, outcome |-> "Error"]
       ELSE [S |-> [r.S EXCEPT !.disk = EmptyMap, !.metaDisk = NoMetaFile,
                               !.idxDisk = EmptyMap],
             outcome |-> "true"]

\* an insertMany that undoes the batch when a document fails
InsertManyRollback(S, docs, i) ==
    LET RECURSIVE Each(_, _)
        Each(T, j) ==
            IF j > Len(docs) THEN [S |-> T, outcome |-> "ok"]
            ELSE IF InsertOne(T, docs[j]).outcome # "ok"
            THEN [S |-> S, outcome |-> InsertOne(T, docs[j]).outcome]
            ELSE Each(InsertOne(T, docs[j]).S, j + 1)
    IN Each(S, i)

\* insertMany: insertOne per document, stopping at the first failure
RECURSIVE InsertMany(_, _, _)
InsertMany(S, docs, i) ==
    IF i > Len(docs) THEN [S |-> S, outcome |-> "ok"]
    ELSE LET r == InsertOne(S, docs[i])
         IN IF r.outcome # "ok" THEN r
            ELSE InsertMany(r.S, docs, i + 1)

\* '+'-joined name of the indexed field(s)
RECURSIVE FieldSpec(_, _)
FieldSpec(field, i) ==
    IF i > Len(field) THEN ""
    ELSE field[i] \o (IF i < Len(field) THEN "+" ELSE "") \o FieldSpec(field, i + 1)

HasIndexKey(idxs, key) == \E i \in 1..Len(idxs) : idxs[i].key = key

\* IndexManager.findByIndex: the index is looked up under name:field; null
\* is returned when the lookup finds an index; otherwise entries is read
\* from undefined, a TypeError
FindByIndex(idxs, field, value) ==
    IF HasIndexKey(idxs, field)
    THEN [kind |-> "null", ids |-> <<>>]
    ELSE [kind |-> "TypeError", ids |-> <<>>]

\* IndexManager.createIndex
ManagerCreateIndex(S, field, isCompound, unique, sparse) ==
    LET key == FieldSpec(field, 1)
        ix == [key |-> key, field |-> field, isCompound |-> isCompound,
               unique |-> unique, sparse |-> sparse, entries |-> EmptyMap]
    IN IF HasIndexKey(S.indices, key) THEN S
       ELSE [S EXCEPT !.indices = Append(@, ix),
                      !.idxDisk = Put(@, key, ix),
                      !.metaDisk = RegisterIndex(@, ix)]

\* the back-fill loop of Collection.createIndex
RECURSIVE Backfill(_, _, _)
Backfill(S, docs, i) ==
    IF i > Len(docs) THEN [S |-> S, outcome |-> "ok"]
    ELSE LET r == UpdateIndex(S, docs[i]._id, docs[i])
         IN IF ~r.ok THEN [S |-> r.S, outcome |-> "UniqueViolation"]
            ELSE Backfill(r.S, docs, i + 1)

\* idx.field === field holds only for a string field
Registered(metadata, field, isCompound) ==
    /\ ~isCompound
    /\ \E j \in 1..Len(metadata.indices) :
          ~metadata.indices[j].isArray /\ metadata.indices[j].field = field

CreateIndex(S, field, isCompound, unique, sparse) ==
    LET S1 == ManagerCreateIndex(S, field, isCompound, unique, sparse)
        pushed == [S1 EXCEPT !.metadata.indices =
                      Append(@, [field |-> field, isArray |-> isCompound,
                                 unique |-> unique, sparse |-> sparse])]
        L == LoadAllDocuments(IF Registered(S1.metadata, field, isCompound)
                              THEN S1 ELSE SaveMetadata(pushed))
    IN IF ~Registered(S1.metadata, field, isCompound) /\ ~ColDirExists(S1)
       THEN [S |-> pushed, outcome |-> "Error"]
       ELSE IF ~L.ok THEN [S |-> L.S, outcome |-> "Error"]
       ELSE Backfill(L.S, L.docs, 1)

\* `${field}` for an array of field names: its elements joined by commas
RECURSIVE TemplateText(_, _)
TemplateText(field, i) ==
    IF i > Len(field) THEN ""
    ELSE field[i] \o (IF i < Len(field) THEN "," ELSE "") \o TemplateText(field, i + 1)

\* IndexManager.dropIndex: the index under name:${field} is deleted from
\* memory and its file `${field}.idx` is unlinked; nothing when no index
\* has this key
ManagerDropIndex(S, field, isArray) ==
    LET key == TemplateText(field, 1)
        Other(ix) == ix.key # key
    IN IF ~HasIndexKey(S.indices, key) THEN S
       ELSE [S EXCEPT !.indices = SelectSeq(@, Other),
                      !.idxDisk = Drop1(@, key)]

\* Collection.dropIndex: idx.field !== field keeps every definition whose
\* field is an array, and every one when the argument is an array
DropIndex(S, field, isArray) ==
    LET S1 == ManagerDropIndex(S, field, isArray)
        Kept(idx) == idx.isArray \/ isArray \/ idx.field # field
        filtered == [S1 EXCEPT !.metadata.indices = SelectSeq(@, Kept)]
    IN IF ~ColDirExists(S1) THEN [S |-> filtered, outcome |-> "Error"]
       ELSE [S |-> SaveMetadata(filtered), outcome |-> "true"]

\* ---------------------------------------------------------------- Database
\* Database.collection: a new Collection replaces the registered one
Collection(S) == [S EXCEPT !.documents = EmptyMap, !.metadata = NewMetadata]

\* the loop of Collection.initialize over the metadata's index definitions
RECURSIVE CreateListed(_, _, _)
CreateListed(S, defs, i) ==
    IF i > Len(defs) THEN S
    ELSE CreateListed(
            ManagerCreateIndex(S, defs[i].field, defs[i].isArray,
                               defs[i].unique, defs[i].sparse),
            defs, i + 1)

\* new Database(...), initialize(), collection(name) on the same dataDir:
\* a new index manager loads the .idx files (loaded: their contents in
\* readdir order), Collection.initialize creates the indexes the metadata
\* file lists, and collection(name) registers a new Collection
Reopen(S, loaded) ==
    IF ~ColDirExists(S) THEN Collection([S EXCEPT !.indices = <<>>])
    ELSE Collection(CreateListed([S EXCEPT !.indices = loaded],
                                 S.metaDisk.indices, 1))

\* ------------------------------------------------------------------ state
VARIABLES
    documents,   \* Collection.documents: id -> [data, chunkPaths]
    metadata,    \* Collection.metadata: count, documentOrder, indices
    metaDisk,    \* <collection>/_metadata.json
    disk,        \* <collection>/<id>/: chunk index -> chunk content
    indices,     \* IndexManager.indices, in creation order
    idxDisk,     \* <collection>/_indices/<fieldSpec>.idx
    locks,       \* global._documentLocks: the ids whose lock key is set
    procs,       \* the concurrent invocations in progress
    last         \* the last call that returned: [op, outcome], n calls so far

vars == <<documents, metadata, metaDisk, disk, indices, idxDisk, locks, procs, last>>

State == [documents |-> documents, metadata |-> metadata, metaDisk |-> metaDisk,
          disk |-> disk, indices |-> indices, idxDisk |-> idxDisk]

Install(S) ==
    /\ documents' = S.documents
    /\ metadata' = S.metadata
    /\ metaDisk' = S.metaDisk
    /\ disk' = S.disk
    /\ indices' = S.indices
    /\ idxDisk' = S.idxDisk

\* the calls of one run are counted, up to MaxCalls
MayCall == last.n < MaxCalls

Returned(op, outcome) ==
    last' = [op |-> op, outcome |-> outcome, n |-> last.n + 1]

EntryIds(idxs) ==
    UNION {UNION {Range(idxs[i].entries[k]) : k \in DOMAIN idxs[i].entries} :
             i \in 1..Len(idxs)}

\* ids that occur anywhere: _generateId draws 12 random bytes, so a
\* generated id is none of them
UsedIds ==
    DOMAIN documents \cup DOMAIN disk \cup Range(metadata.documentOrder)
      \cup Range(metaDisk.documentOrder) \cup EntryIds(indices)
      \cup UNION {EntryIds(<<idxDisk[k]>>) : k \in DOMAIN idxDisk}

FreshIds == Ids \ UsedIds

\* inputs: a document either names its _id or gets a generated one (a
\* fresh id); field b takes one value
Docs == [_id : Ids, a : FieldVals, b : {Undefined, StrVal("x")}]
Updates ==
    {SetUnset(a, b) : a \in FieldVals \cup {Keep}, b \in {Keep, Undefined, StrVal("x")}}
IndexFields == {<<"a">>, <<"b">>}

Permutations1(files) ==
    {p \in [1..Cardinality(DOMAIN files) -> Range(files)] : Range(p) = Range(files)}

Init ==
    /\ documents = EmptyMap
    /\ metadata = NewMetadata
    /\ metaDisk = NoMetaFile
    /\ disk = EmptyMap
    /\ indices = <<>>
    /\ idxDisk = EmptyMap
    /\ locks = {}
    /\ procs = EmptyMap
    /\ last = [op |-> "open", outcome |-> "ok", n |-> 0]

\* ------------------------------------------- calls made one after another
DoCreateIndex ==
    /\ MayCall
    /\ \E field \in IndexFields, unique \in {TRUE}, sparse \in {FALSE} :
          LET r == CreateIndex(State, field, Len(field) > 1, unique, sparse)
          IN /\ Install(r.S)
             /\ Returned("createIndex", r.outcome)
    /\ UNCHANGED <<locks, procs>>

DoInsertOne ==
    /\ MayCall
    /\ Len(metadata.documentOrder) < MaxOrder
    /\ \E doc \in Docs :
          LET r == InsertOne(State, doc)
          IN /\ Install(r.S)
             /\ Returned("insertOne", r.outcome)
    /\ UNCHANGED <<locks, procs>>

DoInsertMany ==
    /\ MayCall
    /\ Len(metadata.documentOrder) + 2 <= MaxOrder
    /\ \E d1 \in Docs, d2 \in Docs :
          /\ d1._id \in FreshIds /\ d2._id \in FreshIds /\ d1._id # d2._id
          /\ LET r == InsertMany(State, <<d1, d2>>, 1)
             IN /\ Install(r.S)
                /\ Returned("insertMany", r.outcome)
    /\ UNCHANGED <<locks, procs>>

DoUpdateById ==
    /\ MayCall
    /\ \E id \in Ids, update \in Updates :
          LET r == UpdateById(State, id, update)
          IN /\ Install(r.S)
             /\ Returned("updateById", r.outcome)
    /\ UNCHANGED <<locks, procs>>

DoDeleteById ==
    /\ MayCall
    /\ \E id \in Ids :
          LET r == DeleteById(State, id)
          IN /\ Install(r.S)
             /\ Returned("deleteById", r.outcome)
    /\ UNCHANGED <<locks, procs>>

DoUpdatePosition ==
    /\ MayCall
    /\ \E id \in Ids, newIndex \in 0..MaxOrder :
          LET r == UpdatePosition(State, id, newIndex)
          IN /\ Install(r.S)
             /\ Returned("updatePosition", r.outcome)
    /\ UNCHANGED <<locks, procs>>

DoDrop ==
    /\ MayCall
    /\ LET r == DropCollectionFiles(State)
       IN /\ Install(r.S)
          /\ Returned("drop", r.outcome)
    /\ UNCHANGED <<locks, procs>>

DoCollection ==
    /\ MayCall
    /\ Install(Collection(State))
    /\ Returned("collection", "ok")
    /\ UNCHANGED <<locks, procs>>

DoReopen ==
    /\ MayCall
    /\ ColDirExists(State) => metaDisk.exists
    /\ \E loaded \in Permutations1(idxDisk) :
          Install(Reopen(State, loaded))
    /\ Returned("reopen", "ok")
    /\ UNCHANGED <<locks, procs>>

Next ==
    \/ DoCreateIndex
    \/ DoInsertOne
    \/ DoUpdateById
    \/ DoDeleteById

Spec == Init /\ [][Next]_vars

\* calls that change the document order, one after another
NextOrder ==
    \/ DoInsertOne
    \/ DoInsertMany
    \/ DoDeleteById
    \/ DoUpdatePosition
    \/ DoDrop

SpecOrder == Init /\ [][NextOrder]_vars

\* the same calls, with the database reopened or the collection obtained
\* again in between
NextReopen ==
    \/ NextOrder
    \/ DoCollection
    \/ DoReopen

SpecReopen == Init /\ [][NextReopen]_vars

\* indexes and documents, with the database reopened in between
NextPersist ==
    \/ DoCreateIndex
    \/ DoInsertOne
    \/ DoDeleteById
    \/ DoReopen

SpecPersist == Init /\ [][NextPersist]_vars

\* update objects of every form, on documents with values of every type
ValueDocs ==
    [_id : Ids, a : {Undefined, StrVal("x")},
     b : {Undefined, Null, StrVal("x"), NumVal(0), NumVal(1), ArrVal(""), ArrVal("x")}]

SetObjects ==
    {[EmptyUpdate EXCEPT !.ops = {"$set"}, !.set = m] :
        m \in [_id : {0} \cup Ids, a : {Keep, StrVal("y")}, b : {Keep, StrVal("x")}]}

UnsetObjects ==
    {[EmptyUpdate EXCEPT !.ops = {"$unset"}, !.unset = u] : u \in SUBSET {"_id", "b"}}

Inc(n) == [EmptyUpdate EXCEPT !.ops = {"$inc"}, !.inc = [a |-> 0, b |-> n]]

IncObjects ==
    {Inc(n) : n \in 1..2}
      \cup {[Inc(1) EXCEPT !.ops = @ \cup {"$set"}, !.set.b = StrVal("x")],
            [Inc(1) EXCEPT !.ops = @ \cup {"$unset"}, !.unset = {"b"}]}

PlainObjects ==
    {[EmptyUpdate EXCEPT !.plain = m] :
        m \in [_id : {0} \cup Ids, a : {Keep, StrVal("y")}, b : {Keep, Null}]}

ArrayOperators == {"$push", "$pull", "$addToSet"}

IncA == [EmptyUpdate EXCEPT !.ops = {"$inc"}, !.inc = [a |-> 1, b |-> 0]]

\* an array operator on field b, alone or with $set, $unset or $inc on a
ArrayObjects ==
    {[u EXCEPT !.ops = @ \cup {op}, !.arr = [field |-> "b", s |-> e]] :
        op \in ArrayOperators, e \in {"x", "y"},
        u \in {EmptyUpdate, IncA, SetUnset(StrVal("y"), Keep), SetUnset(Undefined, Keep)}}

UpdateObjects ==
    SetObjects \cup UnsetObjects \cup IncObjects \cup PlainObjects \cup ArrayObjects
      \cup {[EmptyUpdate EXCEPT !.ops = {"$mul"}]}

DoInsertValue ==
    /\ MayCall
    /\ \E doc \in ValueDocs :
          /\ doc._id \in FreshIds
          /\ LET r == InsertOne(State, doc)
             IN /\ Install(r.S)
                /\ Returned("insertOne", r.outcome)
    /\ UNCHANGED <<locks, procs>>

DoUpdateObject ==
    /\ MayCall
    /\ \E id \in Ids, update \in UpdateObjects :
          LET r == UpdateById(State, id, update)
              b == FindById(r.S, id).doc.b
          IN /\ b.t = "number" => b \in {NumVal(n) : n \in 0..MaxNum}
             /\ Install(r.S)
             /\ Returned("updateById", r.outcome)
    /\ UNCHANGED <<locks, procs>>

NextUpdate ==
    \/ DoInsertValue
    \/ DoUpdateObject

SpecUpdate == Init /\ [][NextUpdate]_vars

\* batches inserted into a collection with unique indexes
NextMany ==
    \/ DoCreateIndex
    \/ DoInsertMany
    \/ DoDeleteById

SpecMany == Init /\ [][NextMany]_vars

\* simple and compound indexes, unique or not
AnyIndexFields == {<<"a">>, <<"a", "b">>}

DoCreateAnyIndex ==
    /\ MayCall
    /\ \E field \in AnyIndexFields, unique \in BOOLEAN :
          LET r == CreateIndex(State, field, Len(field) > 1, unique, FALSE)
          IN /\ Install(r.S)
             /\ Returned("createIndex", r.outcome)
    /\ UNCHANGED <<locks, procs>>

NextIndex ==
    \/ DoCreateAnyIndex
    \/ DoInsertOne
    \/ DoDeleteById

SpecIndex == Init /\ [][NextIndex]_vars

\* documents for a compound index on [a, b]: b is absent, null, the number
\* 1, the string "1" or another string
CompDocs ==
    [_id : Ids, a : {StrVal("x")},
     b : {Undefined, Null, NumVal(1), StrVal("1"), StrVal("x")}]

DoInsertComp ==
    /\ MayCall
    /\ \E doc \in CompDocs :
          /\ doc._id \in FreshIds
          /\ LET r == InsertOne(State, doc)
             IN /\ Install(r.S)
                /\ Returned("insertOne", r.outcome)
    /\ UNCHANGED <<locks, procs>>

\* new documents inserted under simple and compound indexes
NextCompound ==
    \/ DoCreateAnyIndex
    \/ DoInsertComp
    \/ DoDeleteById

SpecCompound == Init /\ [][NextCompound]_vars

\* ------------------------------------------------------------------ Query
\* a boolean as the value of a criterion
BoolVal(x) == [t |-> "boolean", s |-> IF x THEN "true" ELSE "false"]

\* Query._evaluateOperator, case '$exists'
EvaluateExists(docValue, criteriaValue) ==
    IF criteriaValue # Undefined THEN docValue # Undefined
    ELSE docValue = Undefined

\* Query.execute for the criteria {field: {$exists: criteriaValue}}
ExecuteExists(docs, field, criteriaValue) ==
    LET Matches(doc) == EvaluateExists(GetNestedValue(doc, field), criteriaValue)
    IN SelectSeq(docs, Matches)

\* Collection.find({field: {$exists: criteriaValue}}): the criterion is an
\* object, so no index is used and all documents are loaded and filtered
FindExists(S, field, criteriaValue) ==
    LET L == LoadAllDocuments(S)
    IN [S |-> L.S, ok |-> L.ok,
        docs |-> IF L.ok THEN ExecuteExists(L.docs, field, criteriaValue) ELSE <<>>]

\* ------------------------------------------- the text of a JSON payload
\* A payload is a JSON string, a sequence of characters: "a" is an ASCII
\* character, "E" a character outside the basic plane (an emoji), "R" the
\* replacement character U+FFFD.  Its serialization is a sequence of UTF-16
\* code units: "q" the quote, "a", "R", and "H", "L" the two surrogates of
\* "E".  A file holds UTF-8 text, a sequence of encoded characters.
Payloads == UNION {[1..n -> {"a", "E"}] : n \in 0..MaxChars}

RECURSIVE CodeUnits(_, _)
CodeUnits(P, i) ==
    IF i > Len(P) THEN <<>>
    ELSE (IF P[i] = "E" THEN <<"H", "L">> ELSE <<P[i]>>) \o CodeUnits(P, i + 1)

\* JSON.stringify of the string: paired surrogates are written as they are
StringifyText(P) == <<"q">> \o CodeUnits(P, 1) \o <<"q">>

\* _splitIntoChunks: data.slice(offset, offset + chunkSize), by code units
SplitBy(data, chunkSize) ==
    [i \in 1..((Len(data) + chunkSize - 1) \div chunkSize) |->
        SubSeq(data, (i - 1) * chunkSize + 1, Min2(i * chunkSize, Len(data)))]

\* writeFile(path, string): the string is encoded as UTF-8; a surrogate
\* pair becomes its character, a surrogate without its partner U+FFFD
RECURSIVE EncodeUtf8(_, _)
EncodeUtf8(s, i) ==
    IF i > Len(s) THEN <<>>
    ELSE IF s[i] = "H" /\ i < Len(s) /\ s[i + 1] = "L"
    THEN <<"E">> \o EncodeUtf8(s, i + 2)
    ELSE IF s[i] \in {"H", "L"} THEN <<"R">> \o EncodeUtf8(s, i + 1)
    ELSE <<s[i]>> \o EncodeUtf8(s, i + 1)

\* readFile(path).toString(): the UTF-8 text as code units
DecodeUtf8(f) == CodeUnits(f, 1)

\* saveData of the payload with this chunkSize on a directory: the files
\* chunk_0..chunk_(k-1) are written, the others stay
SaveText(dir, P, chunkSize) ==
    LET ch == SplitBy(StringifyText(P), chunkSize)
        k == Len(ch)
    IN [i \in (DOMAIN dir) \cup (0..(k - 1)) |->
           IF i < k THEN EncodeUtf8(ch[i + 1], 1) ELSE dir[i]]

\* the chunk paths saveData returns
SavedTextPaths(P, chunkSize) ==
    GetChunkPaths(Len(SplitBy(StringifyText(P), chunkSize)))

\* combinedData of readData
RECURSIVE CombinedData(_, _, _)
CombinedData(dir, chunkPaths, i) ==
    IF i > Len(chunkPaths) THEN <<>>
    ELSE DecodeUtf8(dir[chunkPaths[i]]) \o CombinedData(dir, chunkPaths, i + 1)

\* the characters of code units; a surrogate pair is one character
RECURSIVE Characters(_, _)
Characters(s, i) ==
    IF i > Len(s) THEN <<>>
    ELSE IF s[i] = "H" /\ i < Len(s) /\ s[i + 1] = "L"
    THEN <<"E">> \o Characters(s, i + 2)
    ELSE <<s[i]>> \o Characters(s, i + 1)

\* JSON.parse of the text of a string
ParseText(s) ==
    IF Len(s) >= 2 /\ s[1] = "q" /\ s[Len(s)] = "q"
         /\ \A i \in 2..(Len(s) - 1) : s[i] # "q"
    THEN [ok |-> TRUE, data |-> Characters(SubSeq(s, 2, Len(s) - 1), 1)]
    ELSE [ok |-> FALSE, data |-> <<>>]

ReadText(dir, chunkPaths) == ParseText(CombinedData(dir, chunkPaths, 1))

\* saveData calls on one directory, with payloads and chunk sizes of all
\* kinds
DoSaveData ==
    /\ MayCall
    /\ \E P \in Payloads, chunkSize \in 1..MaxChunkSize :
          /\ disk' = Put(disk, 1, SaveText(DirOf(State, 1), P, chunkSize))
          /\ documents' = Put(documents, 1,
                              [data |-> P, chunkPaths |-> SavedTextPaths(P, chunkSize)])
    /\ Returned("saveData", "ok")
    /\ UNCHANGED <<metadata, metaDisk, indices, idxDisk, locks, procs>>

NextChunks == DoSaveData

SpecChunks == Init /\ [][NextChunks]_vars

\* dropIndex by the field name, by the array of field names of a compound
\* index, and by the text under which a compound index is kept
DroppedFields == {<<"a">>, <<"a", "b">>, <<"a+b">>}

DoDropIndex ==
    /\ MayCall
    /\ \E field \in DroppedFields :
          LET r == DropIndex(State, field, Len(field) > 1)
          IN /\ Install(r.S)
             /\ Returned("dropIndex", r.outcome)
    /\ UNCHANGED <<locks, procs>>

\* indexes created and dropped, with the database reopened in between
NextDrop ==
    \/ DoCreateAnyIndex
    \/ DoInsertComp
    \/ DoDropIndex
    \/ DoReopen

SpecDrop == Init /\ [][NextDrop]_vars

\* createIndex with and without the sparse option
DoCreateSparseIndex ==
    /\ MayCall
    /\ \E field \in AnyIndexFields, sparse \in BOOLEAN :
          LET r == CreateIndex(State, field, Len(field) > 1, FALSE, sparse)
          IN /\ Install(r.S)
             /\ Returned("createIndex", r.outcome)
    /\ UNCHANGED <<locks, procs>>

\* sparse and non-sparse indexes over documents that may lack the fields
NextSparse ==
    \/ DoCreateSparseIndex
    \/ DoInsertOne
    \/ DoDeleteById

SpecSparse == Init /\ [][NextSparse]_vars

\* ------------------------------------------------ calls running concurrently
\* A call in progress: its operation, the await it is suspended at (pc),
\* its arguments and local variables. doc: the document found, then the
\* updated document (updateById), the document to insert (insertOne) or the
\* result (findById); paths, i, buf: chunkPaths, loop index and combinedData
\* of readData, or the paths and index of deleteChunks, or the index of the
\* saveData loop; snap: the JSON text handed to writeFile by _saveMetadata;
\* at: the await at which the call ended.
NoUpdate == EmptyUpdate

Idle ==
    [op |-> "none", pc |-> "idle", id |-> 0, update |-> NoUpdate, doc |-> NullDoc,
     paths |-> <<>>, i |-> 0, buf |-> <<>>, retries |-> 0, snap |-> NoMetaFile,
     outcome |-> "", at |-> ""]

Updaters == {"u1", "u2"}
Readers == {"r1"}
Inserters == {"i1", "i2"}

Set(p, pr) == procs' = [procs EXCEPT ![p] = pr]

At(p, pc) == p \in DOMAIN procs /\ procs[p].pc = pc

\* the call returns or throws: its local variables are gone
Done(pr, outcome) ==
    [pr EXCEPT !.pc = "done", !.outcome = outcome, !.at = pr.pc,
               !.paths = <<>>, !.i = 0, !.buf = <<>>, !.retries = 0,
               !.snap = NoMetaFile]

\* findById returns (kind: "doc", "null" or "error"): the findById call is
\* over; updateById resumes after its await of findById
Resolve(pr, kind, doc) ==
    IF pr.op = "findById"
    THEN [Done(pr, kind) EXCEPT !.doc = doc]
    ELSE [pr EXCEPT !.pc = "found", !.outcome = kind, !.doc = doc,
                    !.paths = <<>>, !.i = 0, !.buf = <<>>]

\* findById up to its first await: the cache test
FindStart(pr) ==
    IF pr.id \in DOMAIN documents
    THEN Resolve(pr, "doc", documents[pr.id].data)
    ELSE [pr EXCEPT !.pc = "exists"]

FindByIdCall(p) ==
    /\ At(p, "idle") /\ p \in Readers
    /\ \E id \in DOMAIN disk :
          Set(p, FindStart([Idle EXCEPT !.op = "findById", !.id = id]))
    /\ UNCHANGED <<documents, metadata, metaDisk, disk, indices, idxDisk, locks, last>>

\* await fileExists(docDirPath)
FileExists(p) ==
    /\ At(p, "exists")
    /\ Set(p, IF procs[p].id \in DOMAIN disk
              THEN [procs[p] EXCEPT !.pc = "readdir"]
              ELSE Resolve(procs[p], "null", NullDoc))
    /\ UNCHANGED <<documents, metadata, metaDisk, disk, indices, idxDisk, locks, last>>

\* await readdir(docDirPath), the chunk files sorted by number
Readdir(p) ==
    /\ At(p, "readdir")
    /\ LET pr == procs[p]
           chunkPaths == SortedSeq(DOMAIN DirOf(State, pr.id))
       IN Set(p, IF pr.id \notin DOMAIN disk THEN Resolve(pr, "error", NullDoc)
                 ELSE IF Len(chunkPaths) = 0 THEN Resolve(pr, "null", NullDoc)
                 ELSE [pr EXCEPT !.pc = "read", !.paths = chunkPaths, !.i = 1,
                                 !.buf = <<>>])
    /\ UNCHANGED <<documents, metadata, metaDisk, disk, indices, idxDisk, locks, last>>

\* one await readFile of readData; after the last chunk JSON.parse, and
\* findById stores the document in the cache
ReadChunk(p) ==
    /\ At(p, "read")
    /\ LET pr == procs[p]
           dir == DirOf(State, pr.id)
           chunk == pr.paths[pr.i]
           combinedData == pr.buf \o dir[chunk]
           parsed == JSONParse(combinedData)
       IN IF chunk \notin DOMAIN dir
          THEN Set(p, Resolve(pr, "error", NullDoc)) /\ UNCHANGED documents
          ELSE IF pr.i < Len(pr.paths)
          THEN /\ Set(p, [pr EXCEPT !.i = @ + 1, !.buf = combinedData])
               /\ UNCHANGED documents
          ELSE IF ~parsed.ok
          THEN Set(p, Resolve(pr, "error", NullDoc)) /\ UNCHANGED documents
          ELSE /\ Set(p, Resolve(pr, "doc", parsed.doc))
               /\ documents' = Put(documents, pr.id,
                                   [data |-> parsed.doc, chunkPaths |-> pr.paths])
    /\ UNCHANGED <<metadata, metaDisk, disk, indices, idxDisk, locks, last>>

\* the updates of the concurrent updateById calls: $set of both fields, or
\* $unset of b (which changes the number of chunks)
UpdUpdates == {SetUnset(StrVal("y"), StrVal("y")), SetUnset(Undefined, Undefined)}

UpdateByIdCall(p) ==
    /\ At(p, "idle") /\ p \in Updaters
    /\ \E id \in DOMAIN disk, update \in UpdUpdates :
          Set(p, FindStart([Idle EXCEPT !.op = "updateById", !.id = id,
                                         !.update = update]))
    /\ UNCHANGED <<documents, metadata, metaDisk, disk, indices, idxDisk, locks, last>>

\* the lock looked up under a key that differs from the key set
IsLockedOtherKey(l, id) == (id + NumIds) \in l

\* _documentLocks[lockKey] !== undefined
IsLocked(l, id) == id \in l

\* the wait loop without its bound
MayRetryForever(l, id, retries) == IsLocked(l, id)

\* the condition of the wait loop
MayRetry(l, id, retries) == IsLocked(l, id) /\ retries < maxRetries

\* an exit that leaves the lock set
FinallyKeepsLock(l, id) == l

\* the finally block: delete _documentLocks[lockKey]
Finally(l, id) == l \ {id}

\* the lock section entered with pr.retries retries made: wait again, give
\* up with LockError, or set the lock and call saveData (test and set are
\* in one synchronous stretch)
LockLoop(p, pr) ==
    IF MayRetry(locks, pr.id, pr.retries)
    THEN Set(p, [pr EXCEPT !.pc = "sleep"]) /\ UNCHANGED locks
    ELSE IF IsLocked(locks, pr.id)
    THEN Set(p, Done([pr EXCEPT !.pc = "sleep"], "LockError")) /\ UNCHANGED locks
    ELSE /\ Set(p, [pr EXCEPT !.pc = "write", !.i = 0, !.retries = 0])
         /\ locks' = locks \cup {pr.id}

\* updateById resumes with the result of findById: null is returned, else
\* _applyUpdate and the lock section
Found(p) ==
    /\ At(p, "found")
    /\ LET pr == procs[p]
       IN IF pr.outcome = "error"
          THEN Set(p, Done(pr, "Error")) /\ UNCHANGED locks
          ELSE IF pr.outcome = "null"
          THEN Set(p, Done(pr, "null")) /\ UNCHANGED locks
          ELSE LockLoop(p, [pr EXCEPT !.doc = ApplyUpdate(pr.doc, pr.update),
                                      !.outcome = ""])
    /\ UNCHANGED <<documents, metadata, metaDisk, disk, indices, idxDisk, last>>

\* the timer of the wait loop fires: retries++, then the loop test again
Sleep(p) ==
    /\ At(p, "sleep")
    /\ LockLoop(p, [procs[p] EXCEPT !.retries = @ + 1])
    /\ UNCHANGED <<documents, metadata, metaDisk, disk, indices, idxDisk, last>>

\* the index update started without waiting for _saveMetadata
CachedThenIndex(p, pr, chunkPaths) ==
    /\ documents' = Put(documents, pr.id, [data |-> pr.doc, chunkPaths |-> chunkPaths])
    /\ Set(p, [pr EXCEPT !.pc = "index", !.paths = <<>>, !.i = 0])
    /\ UNCHANGED metadata

\* updateById after saveData and deleteChunks: the cache entry is replaced
\* and _saveMetadata hands the metadata's JSON text to writeFile
Cached(p, pr, chunkPaths) ==
    /\ documents' = Put(documents, pr.id, [data |-> pr.doc, chunkPaths |-> chunkPaths])
    /\ Set(p, [pr EXCEPT !.pc = "meta", !.snap = Snapshot(metadata),
                         !.paths = <<>>, !.i = 0])
    /\ UNCHANGED metadata

\* updateById after saveData: the cached chunkPaths are compared with the
\* new ones (a missing cache entry is a TypeError, caught by the finally)
Saved(p, pr, chunkPaths) ==
    IF pr.id \notin DOMAIN documents
    THEN /\ Set(p, Done(pr, "Error"))
         /\ locks' = Finally(locks, pr.id)
         /\ UNCHANGED <<documents, metadata>>
    ELSE IF documents[pr.id].chunkPaths # chunkPaths
    THEN /\ Set(p, [pr EXCEPT !.pc = "delete", !.i = 1,
                              !.paths = documents[pr.id].chunkPaths])
         /\ UNCHANGED <<documents, metadata, locks>>
    ELSE Cached(p, pr, chunkPaths) /\ UNCHANGED locks

\* insertOne after saveData: cache entry, count++, documentOrder.push and
\* the call of _saveMetadata, with no await in between
Inserted(p, pr, chunkPaths) ==
    LET counted == [metadata EXCEPT !.count = @ + 1,
                                    !.documentOrder = Append(@, pr.id)]
    IN /\ documents' = Put(documents, pr.id, [data |-> pr.doc, chunkPaths |-> chunkPaths])
       /\ metadata' = counted
       /\ Set(p, [pr EXCEPT !.pc = "meta", !.snap = Snapshot(counted), !.i = 0])
       /\ UNCHANGED locks

\* one await writeFile of the saveData loop: chunk i is written in place
WriteChunk(p) ==
    /\ At(p, "write")
    /\ LET pr == procs[p]
           chunks == SplitIntoChunks(Stringify(pr.doc))
       IN /\ disk' = Put(disk, pr.id, Put(DirOf(State, pr.id), pr.i, chunks[pr.i + 1]))
          /\ IF pr.i + 1 < Len(chunks)
             THEN /\ Set(p, [pr EXCEPT !.i = @ + 1])
                  /\ UNCHANGED <<documents, metadata, locks>>
             ELSE IF pr.op # "updateById"
             THEN Inserted(p, pr, GetChunkPaths(Len(chunks)))
             ELSE Saved(p, pr, GetChunkPaths(Len(chunks)))
    /\ UNCHANGED <<metaDisk, indices, idxDisk, last>>

\* one round of the deleteChunks loop over the old chunkPaths
DeleteChunk(p) ==
    /\ At(p, "delete")
    /\ LET pr == procs[p]
       IN /\ disk' = Put(disk, pr.id, DeleteChunks(DirOf(State, pr.id), <<pr.paths[pr.i]>>))
          /\ IF pr.i < Len(pr.paths)
             THEN /\ Set(p, [pr EXCEPT !.i = @ + 1])
                  /\ UNCHANGED <<documents, metadata>>
             ELSE Cached(p, pr, SavedChunkPaths(pr.doc))
    /\ UNCHANGED <<metaDisk, indices, idxDisk, locks, last>>

\* the writeFile of _saveMetadata completes: _metadata.json holds the text
\* it was given. insertOne returns; updateById calls updateIndex, which
\* runs its loop over the indexes and awaits _saveAllIndices, or throws
MetadataWritten(p) ==
    /\ At(p, "meta")
    /\ metaDisk' = procs[p].snap
    /\ LET pr == procs[p]
           r == UpdateIndexLoop(indices, 1, pr.id, pr.doc)
       IN IF pr.op = "insertOne"
          THEN Set(p, Done(pr, "ok")) /\ UNCHANGED <<indices, locks>>
          ELSE /\ indices' = r.indices
               /\ IF r.ok
                  THEN /\ Set(p, [pr EXCEPT !.pc = "index", !.snap = NoMetaFile])
                       /\ UNCHANGED locks
                  ELSE /\ Set(p, Done(pr, "UniqueViolation"))
                       /\ locks' = Finally(locks, pr.id)
    /\ UNCHANGED <<documents, metadata, disk, idxDisk, last>>

\* _saveAllIndices completes. updateById runs its finally block and
\* returns; insertOne calls saveData
IndicesSaved(p) ==
    /\ At(p, "index")
    /\ idxDisk' = SaveAllIndices(State).idxDisk
    /\ metaDisk' = SaveAllIndices(State).metaDisk
    /\ IF procs[p].op = "insertOne"
       THEN Set(p, [procs[p] EXCEPT !.pc = "write", !.i = 0]) /\ UNCHANGED locks
       ELSE /\ Set(p, Done(procs[p], "ok"))
            /\ locks' = Finally(locks, procs[p].id)
    /\ UNCHANGED <<documents, metadata, disk, indices, last>>

\* a file operation fails: findById throws, insertOne throws, updateById
\* throws through its finally block when it is inside the try
IOError(p) ==
    /\ p \in DOMAIN procs
    /\ procs[p].pc \in {"readdir", "read", "write", "delete", "meta", "index"}
    /\ IF procs[p].pc \in {"readdir", "read"}
       THEN Set(p, Resolve(procs[p], "error", NullDoc)) /\ UNCHANGED locks
       ELSE /\ Set(p, Done(procs[p], "Error"))
            /\ locks' = IF procs[p].op = "updateById"
                        THEN Finally(locks, procs[p].id) ELSE locks
    /\ UNCHANGED <<documents, metadata, metaDisk, disk, indices, idxDisk, last>>

\* an id generator that may repeat an id
GenerateIdAny == Ids

\* _generateId: 12 random bytes, an id no document and no running call has
GenerateId == FreshIds \ {procs[q].id : q \in DOMAIN procs}

InsDocs(id) == [_id : {id}, a : {StrVal("x")}, b : {Undefined, StrVal("x")}]

\* insertOne up to its first await: the _id is generated, updateIndex runs
\* its loop over the indexes and awaits _saveAllIndices, or throws
InsertOneCall(p) ==
    /\ At(p, "idle") /\ p \in Inserters
    /\ \E id \in GenerateId :
          \E doc \in InsDocs(id) :
             LET pr == [Idle EXCEPT !.op = "insertOne", !.id = id, !.doc = doc]
                 r == UpdateIndexLoop(indices, 1, id, doc)
             IN /\ indices' = r.indices
                /\ Set(p, IF r.ok THEN [pr EXCEPT !.pc = "index"]
                          ELSE Done(pr, "UniqueViolation"))
    /\ UNCHANGED <<documents, metadata, metaDisk, disk, idxDisk, locks, last>>

EmptyState ==
    [documents |-> EmptyMap, metadata |-> NewMetadata, metaDisk |-> NoMetaFile,
     disk |-> EmptyMap, indices |-> <<>>, idxDisk |-> EmptyMap]

Holds(S) ==
    /\ documents = S.documents
    /\ metadata = S.metadata
    /\ metaDisk = S.metaDisk
    /\ disk = S.disk
    /\ indices = S.indices
    /\ idxDisk = S.idxDisk

\* one document of two chunks, stored by insertOne
Stored1 == [_id |-> 1, a |-> StrVal("x"), b |-> StrVal("x")]

\* concurrent updateById and findById calls on a stored document, issued
\* in the process that inserted it or after a reopen (nothing cached)
InitUpd ==
    /\ \E reopened \in BOOLEAN :
          Holds(IF reopened THEN Reopen(InsertOne(EmptyState, Stored1).S, <<>>)
                ELSE InsertOne(EmptyState, Stored1).S)
    /\ locks = {}
    /\ procs = [p \in Updaters \cup Readers |-> Idle]
    /\ last = [op |-> "open", outcome |-> "ok", n |-> 0]

NextUpd ==
    \E p \in Updaters \cup Readers :
       \/ UpdateByIdCall(p)
       \/ FindByIdCall(p)
       \/ FileExists(p)
       \/ Readdir(p)
       \/ ReadChunk(p)
       \/ Found(p)
       \/ Sleep(p)
       \/ WriteChunk(p)
       \/ DeleteChunk(p)
       \/ MetadataWritten(p)
       \/ IndicesSaved(p)
       \/ IOError(p)

\* the steps by which a call that has been issued goes on: its file
\* operations complete and its timers fire
NextOf(p) ==
    \/ FileExists(p)
    \/ Readdir(p)
    \/ ReadChunk(p)
    \/ Found(p)
    \/ Sleep(p)
    \/ WriteChunk(p)
    \/ DeleteChunk(p)
    \/ MetadataWritten(p)
    \/ IndicesSaved(p)

SpecUpd == InitUpd /\ [][NextUpd]_vars

\* concurrent insertOne calls on an empty collection
InitIns ==
    /\ Holds(EmptyState)
    /\ locks = {}
    /\ procs = [p \in Inserters |-> Idle]
    /\ last = [op |-> "open", outcome |-> "ok", n |-> 0]

NextIns ==
    \E p \in Inserters :
       \/ InsertOneCall(p)
       \/ IndicesSaved(p)
       \/ WriteChunk(p)
       \/ MetadataWritten(p)
       \/ IOError(p)

SpecIns == InitIns /\ [][NextIns]_vars

\* one document with a number, stored by insertOne
StoredNum == [_id |-> 1, a |-> StrVal("x"), b |-> NumVal(0)]

\* the updates of the concurrent calls: $inc: {b: 1}, or $unset of a and b
LostUpdates == {Inc(1), SetUnset(Undefined, Undefined)}

IncUpdateCall(p) ==
    /\ At(p, "idle") /\ p \in Updaters
    /\ \E id \in DOMAIN disk, update \in LostUpdates :
          Set(p, FindStart([Idle EXCEPT !.op = "updateById", !.id = id,
                                         !.update = update]))
    /\ UNCHANGED <<documents, metadata, metaDisk, disk, indices, idxDisk, locks, last>>

\* concurrent updateById calls on the stored document, issued in the
\* process that inserted it or after a reopen (nothing cached)
InitLost ==
    /\ \E reopened \in BOOLEAN :
          Holds(IF reopened THEN Reopen(InsertOne(EmptyState, StoredNum).S, <<>>)
                ELSE InsertOne(EmptyState, StoredNum).S)
    /\ locks = {}
    /\ procs = [p \in Updaters |-> Idle]
    /\ last = [op |-> "open", outcome |-> "ok", n |-> 0]

NextLost ==
    \E p \in Updaters :
       \/ IncUpdateCall(p)
       \/ FileExists(p)
       \/ Readdir(p)
       \/ ReadChunk(p)
       \/ Found(p)
       \/ Sleep(p)
       \/ WriteChunk(p)
       \/ DeleteChunk(p)
       \/ MetadataWritten(p)
       \/ IndicesSaved(p)
       \/ IOError(p)

SpecLost == InitLost /\ [][NextLost]_vars

\* ------------------------------------------------ deleteById, step by step
Deleters == {"d1", "d2"}

\* deleteById up to its first await, the findById
DeleteByIdCall(p) ==
    /\ At(p, "idle") /\ p \in Deleters
    /\ \E id \in DOMAIN disk :
          Set(p, FindStart([Idle EXCEPT !.op = "deleteById", !.id = id]))
    /\ UNCHANGED <<documents, metadata, metaDisk, disk, indices, idxDisk, locks, last>>

\* deleteById resumes with the result of findById: false for null, else
\* deleteChunks over the cached chunkPaths (when there is a cache entry)
\* and then fileExists(docDir)
DeleteFound(p) ==
    /\ At(p, "found") /\ p \in Deleters
    /\ LET pr == procs[p]
       IN Set(p, IF pr.outcome = "error" THEN Done(pr, "Error")
                 ELSE IF pr.outcome = "null" THEN Done(pr, "false")
                 ELSE IF pr.id \in DOMAIN documents
                         /\ Len(documents[pr.id].chunkPaths) > 0
                 THEN [pr EXCEPT !.pc = "chunks", !.outcome = "", !.i = 1,
                                 !.paths = documents[pr.id].chunkPaths]
                 ELSE [pr EXCEPT !.pc = "dir", !.outcome = ""])
    /\ UNCHANGED <<documents, metadata, metaDisk, disk, indices, idxDisk, locks, last>>

\* one round of deleteChunks: fileExists(chunkPath), then rm
RemoveChunk(p) ==
    /\ At(p, "chunks")
    /\ LET pr == procs[p]
       IN /\ disk' = IF pr.id \in DOMAIN disk
                     THEN Put(disk, pr.id, DeleteChunks(disk[pr.id], <<pr.paths[pr.i]>>))
                     ELSE disk
          /\ Set(p, IF pr.i < Len(pr.paths) THEN [pr EXCEPT !.i = @ + 1]
                    ELSE [pr EXCEPT !.pc = "dir", !.paths = <<>>, !.i = 0])
    /\ UNCHANGED <<documents, metadata, metaDisk, indices, idxDisk, locks, last>>

\* deleteById from "Remove from cache" on: the cache entry is deleted, the
\* count lowered, the id filtered out of documentOrder and _saveMetadata
\* hands the metadata's JSON text to writeFile
Uncached(p, pr) ==
    LET NotId(x) == x # pr.id
        lowered == [metadata EXCEPT !.count = Max2(0, @ - 1),
                                    !.documentOrder = SelectSeq(@, NotId)]
    IN /\ documents' = Drop1(documents, pr.id)
       /\ metadata' = lowered
       /\ Set(p, [pr EXCEPT !.pc = "saved", !.snap = Snapshot(lowered)])

\* removeFromIndices up to its await: the id is removed from every bucket;
\* _saveAllIndices is called when a bucket changed
Purged(p, pr) ==
    LET purged == [i \in 1..Len(indices) |->
                      [indices[i] EXCEPT !.entries = RemoveDocFromIndex(@, pr.id)]]
    IN /\ indices' = purged
       /\ IF purged # indices
          THEN /\ Set(p, [pr EXCEPT !.pc = "purged"])
               /\ UNCHANGED <<documents, metadata>>
          ELSE Uncached(p, pr)

\* fileExists(docDir): rm is called when the directory exists, else
\* removeFromIndices
DirExists(p) ==
    /\ At(p, "dir")
    /\ IF procs[p].id \in DOMAIN disk
       THEN /\ Set(p, [procs[p] EXCEPT !.pc = "rm"])
            /\ UNCHANGED <<documents, metadata, indices>>
       ELSE Purged(p, procs[p])
    /\ UNCHANGED <<metaDisk, disk, idxDisk, locks, last>>

\* rm(docDir, recursive) without force: it rejects when the directory is
\* no longer there, and deleteById raises; else removeFromIndices
RemoveDir(p) ==
    /\ At(p, "rm")
    /\ IF procs[p].id \in DOMAIN disk
       THEN /\ disk' = Drop1(disk, procs[p].id)
            /\ Purged(p, procs[p])
       ELSE /\ Set(p, Done(procs[p], "Error"))
            /\ UNCHANGED <<documents, metadata, disk, indices>>
    /\ UNCHANGED <<metaDisk, idxDisk, locks, last>>

\* the _saveAllIndices of removeFromIndices completes
PurgeSaved(p) ==
    /\ At(p, "purged")
    /\ idxDisk' = SaveAllIndices(State).idxDisk
    /\ metaDisk' = SaveAllIndices(State).metaDisk
    /\ Uncached(p, procs[p])
    /\ UNCHANGED <<disk, indices, locks, last>>

\* the writeFile of _saveMetadata completes and deleteById returns true
DeleteSaved(p) ==
    /\ At(p, "saved")
    /\ metaDisk' = procs[p].snap
    /\ Set(p, Done(procs[p], "true"))
    /\ UNCHANGED <<documents, metadata, disk, indices, idxDisk, locks, last>>

\* a document under a unique index on a, and updateById and deleteById
\* calls on it issued together, in the process that inserted it or after a
\* reopen
Indexed1 ==
    InsertOne(CreateIndex(EmptyState, <<"a">>, FALSE, TRUE, FALSE).S, Stored1).S

InitDel ==
    /\ \E reopened \in BOOLEAN :
          Holds(IF reopened THEN Reopen(Indexed1, <<Indexed1.idxDisk["a"]>>)
                ELSE Indexed1)
    /\ locks = {}
    /\ procs = [p \in Updaters \cup {"d1"} |-> Idle]
    /\ last = [op |-> "open", outcome |-> "ok", n |-> 0]

NextDel ==
    \/ \E p \in Updaters :
          \/ UpdateByIdCall(p)
          \/ Found(p)
          \/ Sleep(p)
          \/ WriteChunk(p)
          \/ DeleteChunk(p)
          \/ MetadataWritten(p)
          \/ IndicesSaved(p)
          \/ IOError(p)
    \/ \E p \in Deleters :
          \/ DeleteByIdCall(p)
          \/ DeleteFound(p)
          \/ RemoveChunk(p)
          \/ DirExists(p)
          \/ RemoveDir(p)
          \/ PurgeSaved(p)
          \/ DeleteSaved(p)
    \/ \E p \in Updaters \cup Deleters :
          \/ FileExists(p)
          \/ Readdir(p)
          \/ ReadChunk(p)

SpecDel == InitDel /\ [][NextDel]_vars

\* two documents under a unique index on a, and two deleteById calls issued
\* together, in the process that inserted the documents or after a reopen
Stored2 == [_id |-> 2, a |-> StrVal("y"), b |-> Undefined]

Indexed2 == InsertOne(Indexed1, Stored2).S

InitDeletes ==
    /\ \E reopened \in BOOLEAN :
          Holds(IF reopened THEN Reopen(Indexed2, <<Indexed2.idxDisk["a"]>>)
                ELSE Indexed2)
    /\ locks = {}
    /\ procs = [p \in Deleters |-> Idle]
    /\ last = [op |-> "open", outcome |-> "ok", n |-> 0]

NextDeletes ==
    \E p \in Deleters :
       \/ DeleteByIdCall(p)
       \/ FileExists(p)
       \/ Readdir(p)
       \/ ReadChunk(p)
       \/ DeleteFound(p)
       \/ RemoveChunk(p)
       \/ DirExists(p)
       \/ RemoveDir(p)
       \/ PurgeSaved(p)
       \/ DeleteSaved(p)

SpecDeletes == InitDeletes /\ [][NextDeletes]_vars

\* updateById calls on a document stored under a unique index on a, issued
\* in the process that inserted it or after a reopen
InitSteps ==
    /\ \E reopened \in BOOLEAN :
          Holds(IF reopened THEN Reopen(Indexed1, <<Indexed1.idxDisk["a"]>>)
                ELSE Indexed1)
    /\ locks = {}
    /\ procs = [p \in Updaters |-> Idle]
    /\ last = [op |-> "open", outcome |-> "ok", n |-> 0]

NextSteps ==
    \E p \in Updaters :
       \/ UpdateByIdCall(p)
       \/ NextOf(p)
       \/ IOError(p)

SpecSteps == InitSteps /\ [][NextSteps]_vars

\* insertOne as the other variant of the source has it, up to its first
\* await: the _id is generated and saveData is called; _saveMetadata and
\* updateIndex follow the chunks
InsertOneOther(p) ==
    /\ At(p, "idle") /\ p \in Inserters
    /\ \E id \in GenerateId :
          \E doc \in InsDocs(id) :
             Set(p, [Idle EXCEPT !.op = "insertOneOther", !.id = id, !.doc = doc,
                                 !.pc = "write"])
    /\ UNCHANGED <<documents, metadata, metaDisk, disk, indices, idxDisk, locks, last>>

\* insertOne calls on an empty collection with a unique index on a, made
\* by either variant of insertOne
InitOrdered ==
    /\ Holds(CreateIndex(EmptyState, <<"a">>, FALSE, TRUE, FALSE).S)
    /\ locks = {}
    /\ procs = [p \in Inserters |-> Idle]
    /\ last = [op |-> "open", outcome |-> "ok", n |-> 0]

NextOrdered ==
    \E p \in Inserters :
       \/ InsertOneCall(p)
       \/ InsertOneOther(p)
       \/ IndicesSaved(p)
       \/ WriteChunk(p)
       \/ MetadataWritten(p)
       \/ IOError(p)

SpecOrdered == InitOrdered /\ [][NextOrdered]_vars

\* ------------------------------------------------------------- properties
\* the stored documents: those findById returns (the cached copy, else the
\* chunks on disk)
StoredIds == {id \in Ids : FindById(State, id).kind = "doc"}
StoredDoc(id) == FindById(State, id).doc

UniqueIndexes == {i \in 1..Len(indices) : indices[i].unique}

\* for every unique index no two stored documents carry the same (present)
\* value on the indexed field(s)
UniqueValues ==
    \A i \in UniqueIndexes :
       \A id1 \in StoredIds, id2 \in StoredIds :
          (id1 # id2 /\ IndexedValue(indices[i], StoredDoc(id1)) # Undefined)
             => IndexedValue(indices[i], StoredDoc(id1))
                  # IndexedValue(indices[i], StoredDoc(id2))

\* C1: in every state reached by createIndex, insertOne, updateById and
\* deleteById calls (failed calls included), for every unique index no two
\* stored documents carry the same value on the indexed field(s). It holds
\* of the empty collection, so it says that no call leads from a state
\* where it holds to one where it does not; stated here of the updateById
\* calls.
C1_UpdateKeepsUnique ==
    [][(last'.op = "updateById" /\ last'.n = last.n + 1 /\ UniqueValues)
          => UniqueValues']_vars

\* a new document (its _id is not stored and has no directory) whose value
\* under a unique single-field index is that of a stored document
DuplicatesStored(doc) ==
    /\ doc._id \notin StoredIds
    /\ doc._id \notin DOMAIN disk
    /\ \E i \in UniqueIndexes :
          /\ ~indices[i].isCompound
          /\ IndexedValue(indices[i], doc) # Undefined
          /\ \E id2 \in StoredIds :
                IndexedValue(indices[i], StoredDoc(id2)) = IndexedValue(indices[i], doc)

\* C2: with a unique index on a field, insertOne of a document whose value
\* for the field equals that of an already stored document raises
\* UniqueViolation and leaves count and documentOrder unchanged and no
\* directory or chunk for the rejected document.
C2_DuplicateRejected ==
    \A doc \in Docs :
       DuplicatesStored(doc) =>
          LET r == InsertOne(State, doc)
          IN /\ r.outcome = "UniqueViolation"
             /\ r.S.metadata.count = metadata.count
             /\ r.S.metadata.documentOrder = metadata.documentOrder
             /\ r.S.disk = disk

Occurrences(seq, x) == Cardinality({i \in 1..Len(seq) : seq[i] = x})

\* C3: after any sequence of insertOne, insertMany, deleteById,
\* updatePosition and drop calls, metadata.documentOrder contains the _id of
\* every stored document exactly once and no other id.
C3_OrderListsStored ==
    /\ \A id \in StoredIds : Occurrences(metadata.documentOrder, id) = 1
    /\ Range(metadata.documentOrder) \subseteq StoredIds

\* count() without criteria, the length of documentOrder and the number of
\* document directories are equal
CountAgrees ==
    /\ metadata.count = Len(metadata.documentOrder)
    /\ metadata.count = Cardinality(DOMAIN disk)

\* C4: whenever no operation is in progress, count() without criteria
\* equals the length of documentOrder and the number of document
\* directories, also right after the database has been reopened and the
\* collection obtained again with collection(name); stated here of the
\* reopening: it does not lead from a state where the three agree to one
\* where they do not.
C4_ReopenKeepsCount ==
    [][(last'.op = "reopen" /\ last'.n = last.n + 1 /\ CountAgrees)
          => CountAgrees']_vars

\* the awaits of updateById between setting and deleting the lock
Critical == {"write", "delete", "meta", "index"}

InCritical(p, id) ==
    /\ procs[p].op = "updateById"
    /\ procs[p].pc \in Critical
    /\ procs[p].id = id

\* C5: at any moment at most one updateById invocation per document is
\* between acquiring and releasing the lock, so the save, cache, metadata
\* and index phases of two updateById calls on a document never overlap.
C5_OneInLockSection ==
    \A id \in Ids : Cardinality({p \in DOMAIN procs : InCritical(p, id)}) <= 1

\* one updateById is inside the lock section while another waits for the
\* same document
C5_Witness ==
    \E p \in DOMAIN procs, q \in DOMAIN procs :
       /\ InCritical(p, procs[q].id)
       /\ procs[q].pc = "sleep"

\* C6: an updateById that acquired the lock has released it when it returns
\* or throws, whichever file operation of the lock section fails; so a lock
\* is held only while an updateById on that document is inside the section.
C6_LockReleased ==
    \A id \in locks : \E p \in DOMAIN procs : InCritical(p, id)

Failed(p, phases) ==
    /\ procs[p].op = "updateById"
    /\ procs[p].pc = "done"
    /\ procs[p].outcome = "Error"
    /\ procs[p].at \in phases

\* both updateById calls have thrown inside the lock section, one while
\* saving or deleting chunks, the other while writing metadata or indexes
C6_Witness ==
    /\ \E p \in DOMAIN procs : Failed(p, {"write", "delete"})
    /\ \E p \in DOMAIN procs : Failed(p, {"meta", "index"})
    /\ locks = {}

RetriesBounded == \A p \in DOMAIN procs : procs[p].retries <= maxRetries

\* the step in which updateById gives up: the 10th retry is over, the lock
\* is held by another call, and nothing is written and no lock changed
LockErrorStep(p) ==
    (procs'[p].outcome = "LockError" /\ procs[p].outcome # "LockError")
       => /\ procs[p].pc = "sleep"
          /\ procs[p].retries + 1 = maxRetries
          /\ procs[p].id \in locks
          /\ UNCHANGED <<documents, metadata, metaDisk, disk, indices, idxDisk, locks>>

\* a step of the wait loop writes nothing and adds one retry, and the loop
\* is left either with LockError or into the lock section with the lock set
\* by this call
WaitStep(p) ==
    (procs[p].pc = "sleep" /\ procs'[p] # procs[p])
       => /\ UNCHANGED <<documents, metadata, metaDisk, disk, indices, idxDisk>>
          /\ \/ /\ procs'[p].pc = "sleep"
                /\ procs'[p].retries = procs[p].retries + 1
                /\ procs[p].id \in locks
                /\ UNCHANGED locks
             \/ procs'[p].outcome = "LockError"
             \/ /\ procs'[p].pc = "write"
                /\ procs[p].id \notin locks
                /\ locks' = locks \cup {procs[p].id}

Versions ==
    {Stored1} \cup {ApplyUpdate(Stored1, u) : u \in UpdUpdates}
      \cup {ApplyUpdate(ApplyUpdate(Stored1, u), v) : u \in UpdUpdates, v \in UpdUpdates}

\* C8: a findById running concurrently with updateById calls on the same
\* document returns the complete document as it was before or after an
\* update, never a mixture of old and new chunks.
C8_NoTornRead ==
    \A p \in DOMAIN procs :
       (procs[p].op = "findById" /\ procs[p].pc = "done" /\ procs[p].outcome = "doc")
          => procs[p].doc \in Versions

AllInserted ==
    /\ DOMAIN procs = Inserters
    /\ \A p \in Inserters : procs[p].pc = "done" /\ procs[p].outcome = "ok"

C10_MetadataPersisted ==
    AllInserted =>
       /\ metaDisk.count = metadata.count
       /\ metaDisk.documentOrder = metadata.documentOrder
       /\ metaDisk.indices = metadata.indices

\* find({}) in state S: no criterion names an indexed field, so all
\* documents are loaded (database.ts:547-565)
Find(S) == LoadAllDocuments(S)

StoredIdsIn(S) == {id \in Ids : FindById(S, id).kind = "doc"}

\* a new document whose value under a unique single-field index of S is
\* that of a document stored in S
DuplicatesIn(S, doc) ==
    /\ doc._id \notin StoredIdsIn(S)
    /\ doc._id \notin DOMAIN S.disk
    /\ \E i \in 1..Len(S.indices) :
          /\ S.indices[i].unique
          /\ ~S.indices[i].isCompound
          /\ IndexedValue(S.indices[i], doc) # Undefined
          /\ \E id2 \in StoredIdsIn(S) :
                IndexedValue(S.indices[i], FindById(S, id2).doc)
                   = IndexedValue(S.indices[i], doc)

\* every insertOne that duplicates a stored value under a unique index is
\* rejected
DuplicatesRejected(S) ==
    \A doc \in Docs :
       DuplicatesIn(S, doc) => InsertOne(S, doc).outcome = "UniqueViolation"

\* the states a reopen of the current state can lead to
Reopened ==
    IF ColDirExists(State) => metaDisk.exists
    THEN {Reopen(State, loaded) : loaded \in Permutations1(idxDisk)}
    ELSE {}

SameDocuments(R) ==
    /\ Find(R).ok
    /\ Range(Find(R).docs) = {StoredDoc(id) : id \in StoredIds}
    /\ Len(Find(R).docs) = Cardinality(StoredIds)

\* C11: documents and unique indexes survive a reopen: after a new Database
\* on the same dataDir, initialize() and collection(name), find({}) returns
\* exactly the documents stored before, with the same _ids and content, and
\* an insertOne that duplicates a value under a unique index created before
\* the reopen, and that was rejected before it, is still rejected.
C11_SurvivesReopen ==
    \A R \in Reopened :
       /\ SameDocuments(R)
       /\ DuplicatesRejected(State) => DuplicatesRejected(R)

\* C12: the document order is stable across restarts: after the database
\* is reopened and the collection obtained with collection(name), find({})
\* returns the documents in the same order as before the restart, including
\* an order established by updatePosition.
C12_OrderSurvivesReopen ==
    \A R \in Reopened :
       Find(State).ok => (Find(R).ok /\ Find(R).docs = Find(State).docs)

\* findById(id) returns null and getPosition(id) returns -1 in state S
Gone(S, id) ==
    /\ FindById(S, id).kind = "null"
    /\ GetPosition(S, id).kind = "index"
    /\ GetPosition(S, id).index = -1

\* the states that calls other than insertOne and insertMany lead to from S
AfterOtherCalls(S) ==
    {UpdateById(S, id, update).S : id \in Ids, update \in Updates}
      \cup {DeleteById(S, id).S : id \in Ids}
      \cup {UpdatePosition(S, id, newIndex).S : id \in Ids, newIndex \in 0..MaxOrder}
      \cup {GetPosition(S, id).S : id \in Ids}

\* C13: for every valid document id (24-hex or UUID v4), once
\* deleteById(id) has returned true, findById(id) returns null and
\* getPosition(id) returns -1, and calls other than an insert of that id
\* leave it so.
C13_DeletedIsGone ==
    \A id \in Ids :
       (isValidID(id) /\ DeleteById(State, id).outcome = "true")
          => /\ Gone(DeleteById(State, id).S, id)
             /\ \A T \in AfterOtherCalls(DeleteById(State, id).S) : Gone(T, id)

\* the document that updateById(id, update) returns in the current state
UpdatedDoc(id, update) == ApplyUpdate(StoredDoc(id), update)

\* C14: for every update object that updateById accepts (operator form or
\* no-operator shorthand, whatever paths $set and $unset name), the document
\* returned and stored by updateById(id, update) has _id equal to id.
C14_UpdateKeepsId ==
    \A id \in StoredIds, update \in UpdateObjects :
       LET r == UpdateById(State, id, update)
       IN r.outcome = "ok"
             => /\ UpdatedDoc(id, update)._id = id
                /\ FindById(r.S, id).kind = "doc"
                /\ FindById(r.S, id).doc._id = id

\* arrays of strings and their text
Arrays == UNION {[1..n -> {"x", "y"}] : n \in 0..MaxArr}

RECURSIVE JoinElems(_, _)
JoinElems(q, i) == IF i > Len(q) THEN "" ELSE q[i] \o JoinElems(q, i + 1)

ElemsOf(v) == CHOOSE q \in Arrays : JoinElems(q, 1) = v.s

\* the MongoDB semantics of $push, $addToSet and $pull of element e on the
\* array q
StandardArray(op, q, e) ==
    LET Other(x) == x # e
    IN CASE op = "$push" -> Append(q, e)
         [] op = "$addToSet" -> IF e \in Range(q) THEN q ELSE Append(q, e)
         [] op = "$pull" -> SelectSeq(q, Other)

\* value new is what the operator makes of value old (an absent field
\* counts as the empty array; $pull leaves an absent field absent)
ArrayApplied(op, old, new, e) ==
    /\ old.t \in {"array", "undefined"}
    /\ new = IF old = Undefined /\ op = "$pull" THEN Undefined
             ELSE ArrVal(JoinElems(StandardArray(op, ElemsOf(old), e), 1))

\* C17: an updateById whose update object contains $push, $pull or
\* $addToSet (alone or together with $set/$unset/$inc) either applies the
\* standard MongoDB array semantics of that operator or raises
\* InvalidUpdate; it never returns successfully without having applied the
\* operator.
C17_ArrayOperatorApplied ==
    \A id \in StoredIds, update \in ArrayObjects :
       LET r == UpdateById(State, id, update)
       IN r.outcome = "ok"
             => \A op \in update.ops \cap ArrayOperators :
                   ArrayApplied(op, StoredDoc(id).b, FindById(r.S, id).doc.b,
                                update.arr.s)

\* C18: updateById with $inc: {k: n} stores (current value at k) + n, where
\* an absent value counts as 0; when the current value at k is present but
\* not a number (null included) it raises InvalidType and the stored
\* document is unchanged.
C18_IncAddsOrRaises ==
    \A id \in StoredIds, n \in 1..2 :
       LET r == UpdateById(State, id, Inc(n))
           old == StoredDoc(id)
           new == FindById(r.S, id).doc
       IN IF old.b = Undefined \/ old.b.t = "number"
          THEN /\ r.outcome = "ok"
               /\ new = [old EXCEPT !.b = NumVal((IF old.b = Undefined THEN 0
                                                  ELSE NumOf(old.b)) + n)]
          ELSE /\ r.outcome = "InvalidType"
               /\ new = old
               /\ r.S.disk = disk

\* the sequence without the documents whose _id is id
Others(docs, id) ==
    LET NotId(d) == d._id # id
    IN SelectSeq(docs, NotId)

\* updatePosition(id, newIndex) in the current state moves id to index
\* min(newIndex, n - 1) of find({}) and keeps the other documents in order
Moves(id, newIndex) ==
    LET before == Find(State).docs
        r == UpdatePosition(State, id, newIndex)
        after == Find(r.S).docs
        target == Min2(newIndex, Len(before) - 1)
    IN /\ r.outcome = "true"
       /\ Find(r.S).ok
       /\ Len(after) = Len(before)
       /\ Range(after) = Range(before)
       /\ after[target + 1]._id = id
       /\ Others(after, id) = Others(before, id)
       /\ GetPosition(r.S, id).kind = "index"
       /\ GetPosition(r.S, id).index = target
       /\ FindIndex(before, id) = target
             => /\ r.S.metadata = metadata
                /\ r.S.metaDisk = metaDisk
                /\ r.S.disk = disk

\* C15: updatePosition(id, newIndex) on a collection of n documents moves
\* id to index min(newIndex, n - 1) and keeps the relative order of all
\* other documents: afterwards find({}) lists the same set of documents,
\* getPosition(id) equals min(newIndex, n - 1), and when that index equals
\* the current position nothing is changed.
C15_PositionUpdated ==
    Find(State).ok =>
       \A id \in StoredIds, newIndex \in 0..MaxOrder : Moves(id, newIndex)

\* document doc is stored in S and listed last in its documentOrder
StoredLast(S, doc) ==
    /\ FindById(S, doc._id).kind = "doc"
    /\ FindById(S, doc._id).doc = doc
    /\ doc._id \in DOMAIN S.disk
    /\ Len(S.metadata.documentOrder) > 0
    /\ S.metadata.documentOrder[Len(S.metadata.documentOrder)] = doc._id

NotInserted(S, doc) ==
    /\ FindById(S, doc._id).kind = "null"
    /\ doc._id \notin DOMAIN S.disk
    /\ doc._id \notin Range(S.metadata.documentOrder)

\* insertMany([d1, d2]) in the current state
BatchOutcome(d1, d2) ==
    LET r == InsertMany(State, <<d1, d2>>, 1)
        r1 == InsertOne(State, d1)
        r2 == InsertOne(r1.S, d2)
    IN IF r1.outcome # "ok"
       THEN /\ r.outcome = r1.outcome
            /\ NotInserted(r.S, d1) /\ NotInserted(r.S, d2)
            /\ r.S.metadata.count = metadata.count
       ELSE IF r2.outcome # "ok"
       THEN /\ r.outcome = r2.outcome
            /\ StoredLast(r.S, d1) /\ NotInserted(r.S, d2)
            /\ r.S.metadata.count = metadata.count + 1
            /\ r.S.metaDisk.count = metadata.count + 1
       ELSE /\ r.outcome = "ok"
            /\ StoredLast(r.S, d2)
            /\ r.S.metadata.count = metadata.count + 2

EntriesFor(list, key) ==
    {j \in 1..Len(list) :
        FieldSpec(IF list[j].isArray THEN list[j].field ELSE <<list[j].field[1]>>, 1) = key}

\* in state S there is exactly one index on the field(s) and exactly one
\* entry for it in metadata.indices, in memory and in _metadata.json
OneIndex(S, field) ==
    /\ Cardinality({i \in 1..Len(S.indices) : S.indices[i].key = FieldSpec(field, 1)}) = 1
    /\ Cardinality(EntriesFor(S.metadata.indices, FieldSpec(field, 1))) = 1
    /\ Cardinality(EntriesFor(S.metaDisk.indices, FieldSpec(field, 1))) = 1

\* createIndex(field, options) called twice in the current state
CreatedTwice(field, unique) ==
    LET r1 == CreateIndex(State, field, Len(field) > 1, unique, FALSE)
        r2 == CreateIndex(r1.S, field, Len(field) > 1, unique, FALSE)
    IN r1.outcome = "ok"
          => /\ r2.outcome = "ok"
             /\ OneIndex(r2.S, field)
             /\ r2.S.indices = r1.S.indices
             /\ r2.S.metadata.indices = r1.S.metadata.indices
             /\ r2.S.metaDisk.indices = r1.S.metaDisk.indices

\* C19: createIndex is idempotent: calling createIndex again with the same
\* field name, or with the same list of fields for a compound index, leaves
\* exactly one index and exactly one entry for it in metadata.indices (in
\* memory and in _metadata.json), and leaves the index buckets unchanged.
C19_CreateIndexIdempotent ==
    \A field \in AnyIndexFields, unique \in BOOLEAN : CreatedTwice(field, unique)

\* the count, the document order and the cache that a handle on S shows
Seen(S) ==
    [count |-> S.metadata.count,
     order |-> S.metadata.documentOrder,
     cache |-> S.documents]

\* C20: collection(name) is idempotent across calls: called again for a name
\* that is already registered it returns the existing Collection instance, so
\* count(), the document order and the cache seen through the second handle
\* are those of the first.
C20_CollectionIdempotent == Seen(Collection(State)) = Seen(State)

\* the unique indexes are compound ones, and there is one
OnlyCompoundUnique ==
    /\ UniqueIndexes # {}
    /\ \A i \in UniqueIndexes : indices[i].isCompound

\* a stored document other than doc has the values of doc on every field of
\* index ix
EqualOnFields(ix, doc) ==
    \E id2 \in StoredIds \ {doc._id} :
       \A j \in 1..Len(ix.field) :
          GetNestedValue(StoredDoc(id2), ix.field[j])
             = GetNestedValue(doc, ix.field[j])

\* C21: with a unique compound index on fields [f1, f2], an insertOne is
\* rejected with UniqueViolation if and only if a different stored document
\* has equal values on every indexed field; two documents that differ on at
\* least one indexed field are both accepted.
C21_CompoundUnique ==
    OnlyCompoundUnique =>
       \A doc \in CompDocs :
          doc._id \in FreshIds =>
             (InsertOne(State, doc).outcome = "UniqueViolation"
                <=> \E i \in UniqueIndexes : EqualOnFields(indices[i], doc))

\* the _ids of the stored documents in which the field is present
IdsWith(field) == {id \in StoredIds : GetNestedValue(StoredDoc(id), field) # Undefined}

\* C22: a criterion {field: {$exists: true}} matches exactly the documents
\* in which the field is present, and {field: {$exists: false}} matches
\* exactly the documents in which the field is absent.
C22_ExistsMatches ==
    Find(State).ok =>
       \A field \in {"a", "b"} :
          /\ FindExists(State, field, BoolVal(TRUE)).ok
          /\ Range(IdsOf(FindExists(State, field, BoolVal(TRUE)).docs)) = IdsWith(field)
          /\ FindExists(State, field, BoolVal(FALSE)).ok
          /\ Range(IdsOf(FindExists(State, field, BoolVal(FALSE)).docs))
                = StoredIds \ IdsWith(field)

\* saveData(P) with this chunkSize on the current directory, then readData
\* over the returned paths
RoundTrip(P, chunkSize) ==
    LET dir == SaveText(DirOf(State, 1), P, chunkSize)
        chunkPaths == SavedTextPaths(P, chunkSize)
    IN /\ \A i \in 1..Len(chunkPaths) :
             /\ chunkPaths[i] = i - 1
             /\ chunkPaths[i] \in DOMAIN dir
             /\ Len(DecodeUtf8(dir[chunkPaths[i]])) <= chunkSize
       /\ CombinedData(dir, chunkPaths, 1) = StringifyText(P)
       /\ ReadText(dir, chunkPaths).ok
       /\ ReadText(dir, chunkPaths).data = P

\* C23: for any JSON payload P and any chunkSize >= 1, saveData writes
\* chunks numbered 0..k-1 without gaps, each holding at most chunkSize units
\* of the serialization, whose concatenation in index order equals the
\* serialization of P; readData over the returned paths yields P.
C23_ChunkRoundTrip ==
    \A P \in Payloads, chunkSize \in 1..MaxChunkSize : RoundTrip(P, chunkSize)

\* every updateById call has been issued and has returned its document
AllUpdated ==
    \A p \in Updaters :
       procs[p].op = "updateById" /\ procs[p].pc = "done" /\ procs[p].outcome = "ok"

\* what the updates of the calls make of the document, applied one after
\* another in some order
InSomeOrder(doc) ==
    {ApplyUpdate(ApplyUpdate(doc, procs[pq[1]].update), procs[pq[2]].update) :
        pq \in {x \in Updaters \X Updaters : x[1] # x[2]}}

\* C24: no update is lost: if several updateById calls on the same document
\* are issued concurrently and all return successfully, the stored document
\* equals the result of applying those updates one after another in some
\* order (e.g. k concurrent $inc: {c: 1} calls raise c by k).
C24_NoLostUpdate ==
    AllUpdated =>
       /\ FindById(State, StoredNum._id).kind = "doc"
       /\ FindById(State, StoredNum._id).doc \in InSomeOrder(StoredNum)

\* the chunk files of document id in S are exactly those of the
\* serialization of doc, and findById returns doc once the cache is empty
StoredAs(S, id, doc) ==
    /\ id \in DOMAIN S.disk
    /\ DOMAIN S.disk[id] = Range(SavedChunkPaths(doc))
    /\ Concat(S.disk[id], SavedChunkPaths(doc), 1) = Stringify(doc)
    /\ ReadData(S.disk[id], SavedChunkPaths(doc)) = [ok |-> TRUE, doc |-> doc]
    /\ FindById([S EXCEPT !.documents = EmptyMap], id).kind = "doc"
    /\ FindById([S EXCEPT !.documents = EmptyMap], id).doc = doc

\* C25: after a successful updateById, the document's chunk files on disk
\* are exactly chunk_0..chunk_(k-1) of the new serialization and, read in
\* order, decode to the document that updateById returned, also when the
\* update changes the number of chunks; so findById returns the updated
\* document after the cache has been cleared (updatePosition) or the
\* database reopened.
C25_UpdateKeepsChunks ==
    \A id \in StoredIds, update \in Updates :
       UpdateById(State, id, update).outcome = "ok"
          => StoredAs(UpdateById(State, id, update).S, id, UpdatedDoc(id, update))

\* C26: an updateById that raises because the new value would violate a
\* unique index leaves the document as it was before the call: afterwards
\* findById(id), the chunk files on disk and the index buckets all still
\* show the pre-update document.
C26_RejectedUpdateKeepsDoc ==
    \A id \in StoredIds, update \in Updates :
       LET r == UpdateById(State, id, update)
       IN r.outcome = "UniqueViolation"
             => /\ FindById(r.S, id).kind = "doc"
                /\ FindById(r.S, id).doc = StoredDoc(id)
                /\ r.S.disk = disk
                /\ r.S.indices = indices

\* C27: when updateIndex(collection, docId, doc) raises UniqueViolation,
\* every index of the collection (not only the violated one) has exactly
\* the buckets it had before the call, for collections with any number of
\* indexes.
C27_ViolationKeepsIndexes ==
    \A doc \in Docs :
       ~UpdateIndex(State, doc._id, doc).ok
          => /\ UpdateIndex(State, doc._id, doc).S.indices = indices
             /\ UpdateIndex(State, doc._id, doc).S.idxDisk = idxDisk

\* C28: insertOne never replaces an existing document: an insertOne whose
\* _id equals the _id of a document already stored in the collection is
\* rejected, and the stored document, count and documentOrder are
\* unchanged.
C28_DuplicateIdRejected ==
    \A doc \in Docs :
       doc._id \in StoredIds =>
          LET r == InsertOne(State, doc)
          IN /\ r.outcome # "ok"
             /\ FindById(r.S, doc._id).kind = "doc"
             /\ FindById(r.S, doc._id).doc = StoredDoc(doc._id)
             /\ r.S.disk = disk
             /\ r.S.metadata.count = metadata.count
             /\ r.S.metadata.documentOrder = metadata.documentOrder

\* the ids in the bucket of a value key
Bucket(ix, key) == IF key \in DOMAIN ix.entries THEN Range(ix.entries[key]) ELSE {}

\* the stored documents whose indexed value is present and has this key
Carriers(ix, key) ==
    {id \in StoredIds :
        /\ IndexedValue(ix, StoredDoc(id)) # Undefined
        /\ GetValueKey(IndexedValue(ix, StoredDoc(id))) = key}

ValueKeys(ix) ==
    DOMAIN ix.entries
      \cup {GetValueKey(IndexedValue(ix, StoredDoc(id))) : id \in StoredIds}

\* C29: whenever no operation is in progress, each index agrees with the
\* stored documents: for every index of a collection and every value key,
\* the bucket holds exactly the ids of the stored documents whose indexed
\* value is present and normalizes to that key; no bucket holds the id of a
\* document that is not stored.
C29_IndexAgrees ==
    \A i \in 1..Len(indices) :
       /\ \A key \in ValueKeys(indices[i]) :
             Bucket(indices[i], key) = Carriers(indices[i], key)
       /\ EntryIds(<<indices[i]>>) \subseteq StoredIds

\* no call is in progress
Quiet == \A p \in DOMAIN procs : procs[p].pc \in {"idle", "done"}

\* a deleteById on id has returned true
Deleted(id) ==
    \E p \in Deleters \cap DOMAIN procs :
       /\ procs[p].op = "deleteById" /\ procs[p].id = id
       /\ procs[p].pc = "done" /\ procs[p].outcome = "true"

\* C30: a deleted document is not resurrected by an in-flight update: once
\* deleteById(id) has returned true and every operation that was running on
\* id has finished, findById(id) returns null, no document directory for id
\* exists, and no index bucket contains id.
C30_DeletedStaysDeleted ==
    \A id \in Ids :
       (Deleted(id) /\ Quiet)
          => /\ FindById(State, id).kind = "null"
             /\ id \notin DOMAIN disk
             /\ id \notin EntryIds(indices)

\* the deleteById calls that returned true
Winners == {p \in Deleters \cap DOMAIN procs : procs[p].outcome = "true"}

\* every deleteById call was made on id and has returned or raised
AllDeleted(id) ==
    \A p \in Deleters :
       /\ p \in DOMAIN procs
       /\ procs[p].op = "deleteById" /\ procs[p].id = id /\ procs[p].pc = "done"

\* C31: when several deleteById(id) calls for the same stored document run
\* concurrently, exactly one of them returns true and count decreases by
\* exactly one, so count still equals the number of stored documents
\* afterwards.
C31_OneDeleteCounts ==
    \A id \in Ids :
       AllDeleted(id)
          => /\ Cardinality(Winners) = 1
             /\ metadata.count = 1
             /\ metadata.count = Cardinality(DOMAIN disk)

\* the steps of the lock section of updateById, in the order of the claim
StepRank(pc) ==
    CASE pc = "write" -> 1
      [] pc = "delete" -> 2
      [] pc = "meta" -> 3
      [] pc = "index" -> 4
      [] OTHER -> 0

\* every chunk of the updated document is in the document's directory
NewChunksWritten(pr) ==
    LET chunks == SplitIntoChunks(Stringify(pr.doc))
    IN /\ pr.id \in DOMAIN disk
       /\ \A i \in 1..Len(chunks) :
             (i - 1) \in DOMAIN disk[pr.id] /\ disk[pr.id][i - 1] = chunks[i]

\* one step of the updateById call p, from the record a to the record b
StepInOrder(a, b) ==
    /\ (StepRank(a.pc) > 0 /\ StepRank(b.pc) > 0) => StepRank(b.pc) >= StepRank(a.pc)
    /\ (StepRank(a.pc) = 1 /\ StepRank(b.pc) > 1) => NewChunksWritten(a)'
    /\ StepRank(a.pc) \in {1, 2} =>
          /\ metaDisk' = metaDisk /\ indices' = indices /\ idxDisk' = idxDisk
          /\ StepRank(b.pc) \in {0, 1, 2, 3}
    /\ StepRank(b.pc) = 4 => (StepRank(a.pc) = 3 /\ metaDisk' = a.snap)
    /\ StepRank(a.pc) \in {3, 4} => disk' = disk
    /\ StepRank(a.pc) # 3 => indices' = indices
    /\ StepRank(a.pc) # 4 => idxDisk' = idxDisk

\* C32: within one updateById, while the per-document lock is held, the
\* steps happen in this order: all new chunks are written, then old chunks
\* are deleted, then metadata is written, then the indexes are updated; no
\* later step starts before the earlier one has completed.
C32_StepsInOrder ==
    [][\A p \in Updaters :
          procs'[p] # procs[p] => StepInOrder(procs[p], procs'[p])]_vars

\* an updateById that wrote its chunk, deleted the old chunks, wrote the
\* metadata and has updated the index
C32_Witness ==
    \E p \in Updaters :
       /\ procs[p].pc = "index"
       /\ procs[p].id \in DOMAIN documents
       /\ Len(documents[procs[p].id].chunkPaths) = 1
       /\ indices # Indexed1.indices
       /\ metaDisk = Snapshot(metadata)

\* one step of the insertOne call p, from the record a to the record b
InsertInOrder(a, b) ==
    /\ a.pc = "write" => a.id \in EntryIds(indices)
    /\ a.pc \in {"write", "meta"} => (indices' = indices /\ idxDisk' = idxDisk)
    /\ metadata' # metadata => (a.pc = "write" /\ NewChunksWritten(a)')
    /\ (metaDisk'.count # metaDisk.count
          \/ metaDisk'.documentOrder # metaDisk.documentOrder) => a.pc = "meta"

\* C33: within one insertOne, the index update (with its uniqueness check)
\* completes before any chunk of the document is written, and count and
\* documentOrder are changed and metadata written only after all chunks have
\* been written.
C33_InsertInOrder ==
    [][\A p \in Inserters :
          procs'[p] # procs[p] => InsertInOrder(procs[p], procs'[p])]_vars

\* C34: in every reachable state of the index manager, every bucket of every
\* unique index holds at most one document id.
C34_UniqueBuckets ==
    \A i \in 1..Len(indices) :
       indices[i].unique =>
          \A key \in DOMAIN indices[i].entries : Len(indices[i].entries[key]) <= 1

\* an insertOne was rejected by a unique index whose bucket holds one id
C34_Witness ==
    /\ last.op = "insertOne" /\ last.outcome = "UniqueViolation"
    /\ \E i \in 1..Len(indices) :
          /\ indices[i].unique
          /\ \E key \in DOMAIN indices[i].entries : Len(indices[i].entries[key]) = 1

\* the id list stored in the index with this key under the value's key
StoredList(idxs, field, value) ==
    LET ix == idxs[CHOOSE i \in 1..Len(idxs) : idxs[i].key = field]
    IN IF GetValueKey(value) \in DOMAIN ix.entries
       THEN ix.entries[GetValueKey(value)] ELSE <<>>

\* C35: findByIndex(collection, field, value) returns the stored id list of
\* the bucket for value (an empty list when the bucket is empty) whenever an
\* index exists for field, and returns null, without raising, when no index
\* exists for field.
C35_FindByIndexReturns ==
    \A field \in {"a", "b"}, value \in {StrVal("x"), StrVal("y"), NumVal(1)} :
       LET r == FindByIndex(indices, field, value)
       IN IF HasIndexKey(indices, field)
          THEN r.kind = "ids" /\ r.ids = StoredList(indices, field, value)
          ELSE r.kind = "null"

\* the collection obtained under the same name after dropCollection
AfterDrop == Collection(DropCollection(State).S)

\* C36: after dropCollection(name) returns true, nothing of the collection
\* remains in the process: a collection obtained afterwards under the same
\* name has no indexes (listIndexes is empty and no uniqueness is enforced),
\* count 0 and no documents.
C36_DropLeavesNothing ==
    DropCollection(State).outcome = "true"
       => /\ ListIndexes(AfterDrop) = <<>>
          /\ \A d1 \in Docs, d2 \in Docs :
                d1._id # d2._id =>
                   InsertOne(InsertOne(AfterDrop, d1).S, d2).outcome # "UniqueViolation"
          /\ AfterDrop.metadata.count = 0
          /\ LoadAllDocuments(AfterDrop).docs = <<>>

\* the keys of the indexes the index manager holds
IndexKeys(idxs) == {idxs[i].key : i \in 1..Len(idxs)}

\* C37: createIndex is all-or-nothing: if createIndex raises (for example
\* because back-filling a unique index meets two existing documents with the
\* same value), the collection has the same set of indexes and the same
\* metadata.indices as before the call, in memory and on disk.
C37_CreateIndexAllOrNothing ==
    \A field \in AnyIndexFields, unique \in BOOLEAN :
       LET r == CreateIndex(State, field, Len(field) > 1, unique, FALSE)
       IN r.outcome # "ok"
             => /\ IndexKeys(r.S.indices) = IndexKeys(indices)
                /\ r.S.metadata.indices = metadata.indices
                /\ DOMAIN r.S.idxDisk = DOMAIN idxDisk
                /\ r.S.metaDisk.indices = metaDisk.indices

\* the key under which the index named by a dropIndex argument is kept
KeyOf(field) == FieldSpec(field, 1)

\* a definition of the index with this key is in the list
Listed(defs, key) ==
    \E j \in 1..Len(defs) :
       key = (IF defs[j].isArray THEN FieldSpec(defs[j].field, 1) ELSE defs[j].field[1])

\* the index is in memory, in a file or in the metadata
Remains(S, key) ==
    \/ HasIndexKey(S.indices, key)
    \/ key \in DOMAIN S.idxDisk
    \/ Listed(S.metadata.indices, key)
    \/ Listed(S.metaDisk.indices, key)

\* C38: a dropped index stays dropped: after dropIndex on a simple or
\* compound index returns true, the index is gone from memory, its .idx file
\* is deleted and its entry is removed from metadata.indices, so it is
\* neither listed nor enforced afterwards, including after the database is
\* reopened.
C38_DroppedStaysDropped ==
    \A field \in DroppedFields :
       LET r == DropIndex(State, field, Len(field) > 1)
       IN (HasIndexKey(indices, KeyOf(field)) /\ r.outcome = "true")
             => /\ ~Remains(r.S, KeyOf(field))
                /\ \A loaded \in Permutations1(r.S.idxDisk) :
                      ~Remains(Reopen(r.S, loaded), KeyOf(field))

\* the document has none of the fields of the index
Absent(ix, doc) == \A j \in 1..Len(ix.field) : GetNestedValue(doc, ix.field[j]) = Undefined

\* the ids the index holds, under any key
Indexed(ix) == UNION {Range(ix.entries[key]) : key \in DOMAIN ix.entries}

\* C39: updateIndex treats an absent indexed value according to the sparse
\* flag: for a sparse index the document gets no entry in that index, and for
\* a non-sparse index the document is recorded under the `undefined` value
\* key; this holds for simple and for compound indexes.
C39_SparseDecides ==
    \A doc \in Docs :
       LET r == UpdateIndexLoop(indices, 1, doc._id, doc)
       IN r.ok =>
             \A i \in 1..Len(indices) :
                Absent(indices[i], doc) =>
                   IF indices[i].sparse
                   THEN doc._id \notin Indexed(r.indices[i])
                   ELSE IF indices[i].isCompound
                   THEN doc._id \in Indexed(r.indices[i])
                   ELSE doc._id \in Bucket(r.indices[i], GetValueKey(Undefined))

\* the timers of the wait loop fire, and a call that can go on does
FairUpd == \A p \in Updaters \cup Readers : WF_vars(NextOf(p))

FairSpecUpd == SpecUpd /\ FairUpd

====
